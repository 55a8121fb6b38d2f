----------------------- MODULE RuntimeLifecycleProofs -----------------------
(***************************************************************************)
(* Proofs about RuntimeLifecycle, for any owners and any MaxIdentity and   *)
(* MaxTicket: the type invariant and the validity of every record, then    *)
(* identities, then counters against the tickets and pins they count, from *)
(* these what a closed owner can rely on, and last that the core           *)
(* implements OwnerLifecycle.                                              *)
(***************************************************************************)
EXTENDS RuntimeLifecycle, FiniteSetTheorems, TLAPS

USE LifecycleConstants

(* Every step is the call of one operation. *)
LEMMA NextCases ==
  ASSUME Next, NEW P,
         \A o \in Owners : InitRoot(o) => P,
         \A o \in Owners : Admit(o) => P,
         \A o \in Owners : CloseRequest(o) => P,
         \A p, c \in Owners : InitChild(p, c) => P,
         \A o \in Owners : CloseBegin(o) => P,
         \A o \in Owners, r \in {"SUCCEEDED", "FAILED"} : CloseComplete(o, r) => P,
         \A o \in Owners, n \in Numbers : Begin(o, n) => P,
         \A o \in Owners, n \in Numbers : Complete(o, n) => P,
         \A p, c \in Owners : ParentPinRelease(p, c) => P
  PROVE  P
BY DEF Next, HostWork

-----------------------------------------------------------------------------
(* What each operation does to a record and to the domain: the result is   *)
(* well typed, and valid if the record was.                                *)
LEMMA EmptyType == Empty \in State
BY DEF Empty, State

LEMMA NewStateType ==
  ASSUME NEW o \in Owners, NEW id \in 1 .. MaxIdentity, NEW parent \in 0 .. MaxIdentity
  PROVE  NewState(o, id, parent) \in State
BY DEF NewState, State

LEMMA WithChildType ==
  ASSUME NEW s \in State, s.child_count # MaxIdentity
  PROVE  WithChild(s) \in State
BY DEF WithChild, State

LEMMA AllocatedType ==
  ASSUME NEW d \in Domain, DomainValid(d), ~d.exhausted
  PROVE  /\ Allocated(d) \in Domain
         /\ Allocated(d).issued = d.issued + 1 /\ d.next = d.issued + 1
<1> DEFINE n == d.next + 1  i == d.issued + 1
<1>1. MaxIdentity \in 0 .. MaxIdentity OBVIOUS
<1>2. CASE d.next = MaxIdentity
  BY <1>1, <1>2 DEF Allocated, Domain, DomainValid
<1>3. CASE d.next # MaxIdentity
  <2>1. n \in 1 .. MaxIdentity /\ i \in 0 .. MaxIdentity /\ d.next = d.issued + 1
    BY <1>3 DEF Domain, DomainValid
  <2>2. Allocated(d) = [d EXCEPT !.next = n, !.issued = i]
    BY <1>3 DEF Allocated
  <2>3. Allocated(d).issued = d.issued + 1 BY <2>2 DEF Domain
  <2> HIDE DEF n, i
  <2> QED BY <2>1, <2>2, <2>3 DEF Domain
<1> QED BY <1>2, <1>3

LEMMA AdmittedValid ==
  ASSUME NEW o \in Owners, NEW s \in State, StateValid(o, s),
         s.phase = "OPEN", HasTicket(s)
  PROVE  Admitted(s) \in State /\ StateValid(o, Admitted(s))
<1> DEFINE a == s.next_ticket + 1
           b == s.admitted + 1
           t == Admitted(s)
<1>1. a \in 0 .. MaxTicket /\ b \in 0 .. MaxTicket
  BY DEF HasTicket, State
<1>2. t = [s EXCEPT !.next_ticket = a, !.admitted = b]
  BY DEF Admitted
<1>3. t \in State
  <2> HIDE DEF a, b, t
  <2> QED BY <1>1, <1>2 DEF State
<1>4. /\ t.next_ticket = s.next_ticket + 1 /\ t.admitted = s.admitted + 1
      /\ t.phase = s.phase /\ t.close_state = s.close_state
      /\ t.close_result = s.close_result
      /\ t.ticket_exhausted = s.ticket_exhausted
      /\ t.parent_pin_held = s.parent_pin_held /\ t.identity = s.identity
      /\ t.parent_identity = s.parent_identity
      /\ t.serving_ticket = s.serving_ticket
      /\ t.active_ticket = s.active_ticket
      /\ t.close_ticket = s.close_ticket /\ t.active = s.active
      /\ t.child_count = s.child_count
  BY DEF Admitted, State
<1> HIDE DEF t
<1>5. StateValid(o, t)
  BY <1>3, <1>4 DEF StateValid, OwnershipValid, PhaseValid, CloseTicketValid,
                    FifoValid, ParallelValid, Drained, State
<1> QED BY <1>3, <1>5 DEF t

LEMMA BegunValid ==
  ASSUME NEW o \in Owners, NEW s \in State, StateValid(o, s),
         NEW n \in Numbers, Fifo(o) => s.serving_ticket = n /\ s.active_ticket = 0,
         s.phase # "CLOSED", s.admitted # 0, s.active < s.admitted
  PROVE  Begun(o, s, n) \in State /\ StateValid(o, Begun(o, s, n))
<1> DEFINE a == s.active + 1
           b == IF Fifo(o) THEN n ELSE s.active_ticket
           t == Begun(o, s, n)
<1>1. a \in 0 .. MaxTicket /\ b \in 0 .. MaxTicket
  BY DEF State, Numbers
<1>2. t = [s EXCEPT !.active = a, !.active_ticket = b]
  BY DEF Begun
<1>3. t \in State
  <2> HIDE DEF a, b, t
  <2> QED BY <1>1, <1>2 DEF State
<1>4. /\ t.active = s.active + 1
      /\ t.active_ticket = IF Fifo(o) THEN n ELSE s.active_ticket
      /\ t.phase = s.phase /\ t.close_state = s.close_state
      /\ t.close_result = s.close_result
      /\ t.ticket_exhausted = s.ticket_exhausted
      /\ t.parent_pin_held = s.parent_pin_held /\ t.identity = s.identity
      /\ t.parent_identity = s.parent_identity
      /\ t.next_ticket = s.next_ticket
      /\ t.serving_ticket = s.serving_ticket
      /\ t.close_ticket = s.close_ticket /\ t.admitted = s.admitted
      /\ t.child_count = s.child_count
  BY DEF Begun, State
<1> HIDE DEF t
<1>5. StateValid(o, t)
  BY <1>3, <1>4 DEF StateValid, OwnershipValid, PhaseValid, CloseTicketValid,
                    FifoValid, ParallelValid, Drained, State
<1> QED BY <1>3, <1>5 DEF t

LEMMA CompletedValid ==
  ASSUME NEW o \in Owners, NEW s \in State, StateValid(o, s),
         s.phase # "CLOSED", s.active # 0, s.admitted # 0,
         Fifo(o) => s.serving_ticket < s.next_ticket
  PROVE  Completed(o, s) \in State /\ StateValid(o, Completed(o, s))
<1> DEFINE a == s.active - 1
           b == s.admitted - 1
           c == IF Fifo(o) THEN 0 ELSE s.active_ticket
           d == s.serving_ticket + (IF Fifo(o) THEN 1 ELSE 0)
           t == Completed(o, s)
<1>1. /\ a \in 0 .. MaxTicket /\ b \in 0 .. MaxTicket
      /\ c \in 0 .. MaxTicket /\ d \in 0 .. MaxTicket
  BY DEF State
<1>2. t = [s EXCEPT !.active = a, !.admitted = b,
                   !.active_ticket = c, !.serving_ticket = d]
  BY DEF Completed
<1>3. t \in State
  <2> HIDE DEF a, b, c, d, t
  <2> QED BY <1>1, <1>2 DEF State
<1>4. /\ t.active = s.active - 1 /\ t.admitted = s.admitted - 1
      /\ t.active_ticket = IF Fifo(o) THEN 0 ELSE s.active_ticket
      /\ t.serving_ticket = s.serving_ticket + (IF Fifo(o) THEN 1 ELSE 0)
      /\ t.phase = s.phase /\ t.close_state = s.close_state
      /\ t.close_result = s.close_result
      /\ t.ticket_exhausted = s.ticket_exhausted
      /\ t.parent_pin_held = s.parent_pin_held /\ t.identity = s.identity
      /\ t.parent_identity = s.parent_identity
      /\ t.next_ticket = s.next_ticket /\ t.close_ticket = s.close_ticket
      /\ t.child_count = s.child_count
  BY DEF Completed, State
<1> HIDE DEF t
<1>5. StateValid(o, t)
  BY <1>3, <1>4 DEF StateValid, OwnershipValid, PhaseValid, CloseTicketValid,
                    FifoValid, ParallelValid, Drained, State
<1> QED BY <1>3, <1>5 DEF t

LEMMA CloseRequestedValid ==
  ASSUME NEW o \in Owners, NEW s \in State, StateValid(o, s),
         s.phase = "OPEN"
  PROVE  CloseRequested(s) \in State /\ StateValid(o, CloseRequested(s))
<1> DEFINE a == IF s.next_ticket = MaxTicket THEN MaxTicket ELSE s.next_ticket + 1
           b == (s.next_ticket = MaxTicket)
           t == CloseRequested(s)
<1>1. /\ a \in 0 .. MaxTicket /\ b \in BOOLEAN
      /\ s.next_ticket \in 0 .. MaxTicket
  BY DEF State
<1>2. t = [s EXCEPT !.phase = "CLOSING", !.close_state = "ADMITTED",
                   !.close_ticket = s.next_ticket,
                   !.ticket_exhausted = b, !.next_ticket = a]
  BY DEF CloseRequested, CloseNumber
<1>3. t \in State
  <2> HIDE DEF a, b, t
  <2> QED BY <1>1, <1>2 DEF State
<1>4. /\ t.phase = "CLOSING" /\ t.close_state = "ADMITTED"
      /\ t.close_ticket = s.next_ticket
      /\ t.ticket_exhausted = (s.next_ticket = MaxTicket)
      /\ t.next_ticket = IF s.next_ticket = MaxTicket THEN MaxTicket ELSE s.next_ticket + 1
      /\ t.close_result = s.close_result
      /\ t.parent_pin_held = s.parent_pin_held /\ t.identity = s.identity
      /\ t.parent_identity = s.parent_identity
      /\ t.serving_ticket = s.serving_ticket
      /\ t.active_ticket = s.active_ticket /\ t.admitted = s.admitted
      /\ t.active = s.active /\ t.child_count = s.child_count
  BY DEF CloseRequested, CloseNumber, State
<1> HIDE DEF t
<1>5. StateValid(o, t)
  BY <1>3, <1>4 DEF StateValid, OwnershipValid, PhaseValid, CloseTicketValid,
                    FifoValid, ParallelValid, Drained, State
<1> QED BY <1>3, <1>5 DEF t

LEMMA CloseBegunValid ==
  ASSUME NEW o \in Owners, NEW s \in State, StateValid(o, s),
         Ready(s), Fifo(o) => s.active_ticket = 0
  PROVE  CloseBegun(o, s) \in State /\ StateValid(o, CloseBegun(o, s))
<1> DEFINE a == IF Fifo(o) THEN s.close_ticket ELSE s.active_ticket
           t == CloseBegun(o, s)
<1>1. a \in 0 .. MaxTicket
  BY DEF State
<1>2. t = [s EXCEPT !.close_state = "ACTIVE", !.active_ticket = a]
  BY DEF CloseBegun
<1>3. t \in State
  <2> HIDE DEF a, t
  <2> QED BY <1>1, <1>2 DEF State
<1>4. /\ t.close_state = "ACTIVE"
      /\ t.active_ticket = IF Fifo(o) THEN s.close_ticket ELSE s.active_ticket
      /\ t.phase = s.phase /\ t.close_result = s.close_result
      /\ t.ticket_exhausted = s.ticket_exhausted
      /\ t.parent_pin_held = s.parent_pin_held /\ t.identity = s.identity
      /\ t.parent_identity = s.parent_identity
      /\ t.next_ticket = s.next_ticket
      /\ t.serving_ticket = s.serving_ticket
      /\ t.close_ticket = s.close_ticket /\ t.admitted = s.admitted
      /\ t.active = s.active /\ t.child_count = s.child_count
  BY DEF CloseBegun, State
<1> HIDE DEF t
<1>5. StateValid(o, t)
  BY <1>3, <1>4 DEF StateValid, OwnershipValid, PhaseValid, CloseTicketValid,
                    FifoValid, ParallelValid, Drained, State, Ready
<1> QED BY <1>3, <1>5 DEF t

LEMMA CloseCompletedValid ==
  ASSUME NEW o \in Owners, NEW s \in State, StateValid(o, s),
         NEW r \in {"SUCCEEDED", "FAILED"},
         s.phase # "CLOSED", s.close_state = "ACTIVE", Drained(s),
         Fifo(o) => s.serving_ticket = s.close_ticket
  PROVE  CloseCompleted(o, s, r) \in State /\ StateValid(o, CloseCompleted(o, s, r))
<1> DEFINE a == IF Fifo(o) THEN 0 ELSE s.active_ticket
           b == IF Fifo(o) THEN ServedClose(s) ELSE s.serving_ticket
           t == CloseCompleted(o, s, r)
<1>1. a \in 0 .. MaxTicket /\ b \in 0 .. MaxTicket
  BY DEF State, ServedClose
<1>2. t = [s EXCEPT !.phase = "CLOSED", !.close_state = "COMPLETED", !.close_result = r,
                   !.active_ticket = a, !.serving_ticket = b]
  BY DEF CloseCompleted
<1>3. t \in State
  <2> HIDE DEF a, b, t
  <2> QED BY <1>1, <1>2 DEF State
<1>4. /\ t.phase = "CLOSED" /\ t.close_state = "COMPLETED"
      /\ t.close_result = r
      /\ t.active_ticket = IF Fifo(o) THEN 0 ELSE s.active_ticket
      /\ t.serving_ticket = IF Fifo(o) THEN ServedClose(s) ELSE s.serving_ticket
      /\ t.ticket_exhausted = s.ticket_exhausted
      /\ t.parent_pin_held = s.parent_pin_held /\ t.identity = s.identity
      /\ t.parent_identity = s.parent_identity
      /\ t.next_ticket = s.next_ticket /\ t.close_ticket = s.close_ticket
      /\ t.admitted = s.admitted /\ t.active = s.active
      /\ t.child_count = s.child_count
  BY DEF CloseCompleted, State
<1> HIDE DEF t
<1>5. StateValid(o, t)
  BY <1>3, <1>4 DEF StateValid, OwnershipValid, PhaseValid, CloseTicketValid,
                    FifoValid, ParallelValid, Drained, State, ServedClose
<1> QED BY <1>3, <1>5 DEF t

LEMMA WithoutChildValid ==
  ASSUME NEW o \in Owners, NEW s \in State, StateValid(o, s),
         s.phase # "CLOSED", s.child_count # 0
  PROVE  WithoutChild(s) \in State /\ StateValid(o, WithoutChild(s))
<1> DEFINE a == s.child_count - 1
           t == WithoutChild(s)
<1>1. a \in 0 .. MaxIdentity
  BY DEF State
<1>2. t = [s EXCEPT !.child_count = a]
  BY DEF WithoutChild
<1>3. t \in State
  <2> HIDE DEF a, t
  <2> QED BY <1>1, <1>2 DEF State
<1>4. /\ t.child_count = s.child_count - 1 /\ t.phase = s.phase
      /\ t.close_state = s.close_state /\ t.close_result = s.close_result
      /\ t.ticket_exhausted = s.ticket_exhausted
      /\ t.parent_pin_held = s.parent_pin_held /\ t.identity = s.identity
      /\ t.parent_identity = s.parent_identity
      /\ t.next_ticket = s.next_ticket
      /\ t.serving_ticket = s.serving_ticket
      /\ t.active_ticket = s.active_ticket
      /\ t.close_ticket = s.close_ticket /\ t.admitted = s.admitted
      /\ t.active = s.active
  BY DEF WithoutChild, State
<1> HIDE DEF t
<1>5. StateValid(o, t)
  BY <1>3, <1>4 DEF StateValid, OwnershipValid, PhaseValid, CloseTicketValid,
                    FifoValid, ParallelValid, Drained, State
<1> QED BY <1>3, <1>5 DEF t

LEMMA UnpinnedValid ==
  ASSUME NEW o \in Owners, NEW s \in State, StateValid(o, s),
         s.phase = "CLOSED"
  PROVE  Unpinned(s) \in State /\ StateValid(o, Unpinned(s))
<1> DEFINE t == Unpinned(s)
<1>2. t = [s EXCEPT !.parent_pin_held = FALSE]
  BY DEF Unpinned
<1>3. t \in State
  <2> HIDE DEF t
  <2> QED BY <1>2 DEF State
<1>4. /\ t.parent_pin_held = FALSE /\ t.phase = s.phase
      /\ t.close_state = s.close_state /\ t.close_result = s.close_result
      /\ t.ticket_exhausted = s.ticket_exhausted /\ t.identity = s.identity
      /\ t.parent_identity = s.parent_identity
      /\ t.next_ticket = s.next_ticket
      /\ t.serving_ticket = s.serving_ticket
      /\ t.active_ticket = s.active_ticket
      /\ t.close_ticket = s.close_ticket /\ t.admitted = s.admitted
      /\ t.active = s.active /\ t.child_count = s.child_count
  BY DEF Unpinned, State
<1> HIDE DEF t
<1>5. StateValid(o, t)
  BY <1>3, <1>4 DEF StateValid, OwnershipValid, PhaseValid, CloseTicketValid,
                    FifoValid, ParallelValid, Drained, State
<1> QED BY <1>3, <1>5 DEF t

-----------------------------------------------------------------------------
TypedAndValid == TypeOK /\ AlwaysValid

LEMMA InitTypedAndValid == Init => TypedAndValid
BY EmptyType
   DEF Init, TypedAndValid, TypeOK, AlwaysValid, DomainValid, Domain, Numbers, TicketPhase

(* One record replaced by a good one. *)
LEMMA OneRecord ==
  ASSUME TypedAndValid, NEW o \in Owners, NEW t \in State, StateValid(o, t),
         state' = [state EXCEPT ![o] = t], UNCHANGED domain,
         ticket' \in [Owners -> [Numbers -> TicketPhase]]
  PROVE  TypedAndValid'
BY DEF TypedAndValid, TypeOK, AlwaysValid

LEMMA StepTypedAndValid == TypedAndValid /\ [Next]_vars => TypedAndValid'
<1> SUFFICES ASSUME TypedAndValid, [Next]_vars PROVE TypedAndValid'
  OBVIOUS
<1>0. /\ TypeOK /\ AlwaysValid /\ domain \in Domain
      /\ \A o \in Owners : state[o] \in State
      /\ \A o \in Owners, n \in Numbers : ticket[o][n] \in TicketPhase
  BY DEF TypedAndValid, TypeOK
<1>1. ASSUME NEW o \in Owners, InitRoot(o) PROVE TypedAndValid'
  <2>1. domain.next \in 1 .. MaxIdentity BY <1>0 DEF Domain
  <2>2. NewState(o, domain.next, 0) \in State BY <2>1, NewStateType
  <2> QED BY <1>0, <1>1, <2>2, AllocatedType
          DEF InitRoot, TypedAndValid, TypeOK, AlwaysValid
<1>2. ASSUME NEW o \in Owners, Admit(o) PROVE TypedAndValid'
  BY <1>0, <1>2, AdmittedValid, OneRecord DEF Admit, TypeOK, TicketPhase
<1>3. ASSUME NEW o \in Owners, CloseRequest(o) PROVE TypedAndValid'
  BY <1>0, <1>3, CloseRequestedValid, OneRecord DEF CloseRequest, TypeOK
<1>4. ASSUME NEW p \in Owners, NEW c \in Owners, InitChild(p, c) PROVE TypedAndValid'
  <2>1. domain.next \in 1 .. MaxIdentity /\ state[p].identity \in 0 .. MaxIdentity
    BY <1>0 DEF Domain, State
  <2>2. NewState(c, domain.next, state[p].identity) \in State BY <2>1, NewStateType
  <2>3. WithChild(state[p]) \in State BY <1>0, <1>4, WithChildType DEF InitChild
  <2> QED BY <1>0, <1>4, <2>2, <2>3, AllocatedType
          DEF InitChild, TypedAndValid, TypeOK, AlwaysValid
<1>5. ASSUME NEW o \in Owners, CloseBegin(o) PROVE TypedAndValid'
  BY <1>0, <1>5, CloseBegunValid, OneRecord DEF CloseBegin, TypeOK
<1>6. ASSUME NEW o \in Owners, NEW r \in {"SUCCEEDED", "FAILED"}, CloseComplete(o, r)
      PROVE  TypedAndValid'
  BY <1>0, <1>6, CloseCompletedValid, OneRecord DEF CloseComplete, TypeOK
<1>7. ASSUME NEW o \in Owners, NEW n \in Numbers, Begin(o, n) PROVE TypedAndValid'
  BY <1>0, <1>7, BegunValid, OneRecord DEF Begin, Served, TypeOK, TicketPhase
<1>8. ASSUME NEW o \in Owners, NEW n \in Numbers, Complete(o, n) PROVE TypedAndValid'
  <2>1. Fifo(o) => state[o].serving_ticket < state[o].next_ticket
    BY <1>8 DEF Complete, Matches
  <2> QED BY <1>0, <1>8, <2>1, CompletedValid, OneRecord DEF Complete, TypeOK, TicketPhase
<1>9. ASSUME NEW p \in Owners, NEW c \in Owners, ParentPinRelease(p, c)
      PROVE  TypedAndValid'
  <2>1. WithoutChild(state[p]) \in State /\ StateValid(p, WithoutChild(state[p]))
    BY <1>0, <1>9, WithoutChildValid DEF ParentPinRelease, MayUnpin
  <2>2. Unpinned(state[c]) \in State /\ StateValid(c, Unpinned(state[c]))
    BY <1>0, <1>9, UnpinnedValid DEF ParentPinRelease, MayUnpin
  <2> QED BY <1>0, <1>9, <2>1, <2>2
          DEF ParentPinRelease, TypedAndValid, TypeOK, AlwaysValid
<1>10. CASE UNCHANGED vars
  BY <1>10 DEF TypedAndValid, TypeOK, AlwaysValid, vars
<1> QED BY <1>1, <1>2, <1>3, <1>4, <1>5, <1>6, <1>7, <1>8, <1>9, <1>10, NextCases

(* The counters of a record and of the domain stay in range: none of them  *)
(* passes UINT64_MAX or drops below zero, whatever the order of the calls  *)
(* of runtime_lifecycle.c.                                                 *)
THEOREM TypeCorrect == Spec => []TypeOK
<1>1. TypedAndValid => TypeOK BY DEF TypedAndValid
<1> QED BY <1>1, InitTypedAndValid, StepTypedAndValid, PTL DEF Spec

(* state_validate_v1 and domain_validate_v1 accept every reachable record: *)
(* no sequence of successful calls leads to INVALID_STATE.                 *)
THEOREM RecordsAlwaysValid == Spec => []AlwaysValid
<1>1. TypedAndValid => AlwaysValid BY DEF TypedAndValid
<1> QED BY <1>1, InitTypedAndValid, StepTypedAndValid, PTL DEF Spec

-----------------------------------------------------------------------------
(* The induction behind the remaining properties.  Counters are compared   *)
(* with the tickets and pins they count; a FIFO has only its active ticket *)
(* running and only tickets from serving_ticket on waiting.                *)
TicketsInOrder ==
  \A o \in Owners, n \in Numbers :
    /\ ticket[o][n] # "NONE" => Matches(state[o], n)
    /\ Fifo(o) => /\ ticket[o][n] = "ADMITTED" => n >= state[o].serving_ticket
                  /\ ticket[o][n] = "ACTIVE" => state[o].active_ticket = n

IInv == TypedAndValid /\ IdentitiesLast /\ CountsAreExact /\ TicketsInOrder

LEMMA FiniteParts ==
  ASSUME NEW o \in Owners
  PROVE  /\ IsFiniteSet(Pending(o)) /\ IsFiniteSet(Running(o))
         /\ IsFiniteSet(Children(o))
<1>1. IsFiniteSet(Numbers) BY FS_Interval DEF Numbers
<1> QED BY <1>1, FS_Subset DEF Pending, Running, Children

LEMMA InitIInv == Init => IInv
<1> SUFFICES ASSUME Init PROVE IInv
  OBVIOUS
<1>1. TypedAndValid BY InitTypedAndValid
<1>2. IdentitiesLast BY DEF Init, IdentitiesLast, Live, Empty
<1>3. \A o \in Owners : Pending(o) = {} /\ Running(o) = {} /\ Children(o) = {}
  BY DEF Init, Pending, Running, Children, Empty
<1>4. CountsAreExact BY <1>3, FS_EmptySet DEF Init, CountsAreExact, Empty
<1>5. TicketsInOrder BY DEF Init, TicketsInOrder
<1> QED BY <1>1, <1>2, <1>4, <1>5 DEF IInv

(* What validation says of identities. *)
LEMMA IdentityFacts ==
  ASSUME IInv
  PROVE  /\ domain \in Domain /\ DomainValid(domain)
         /\ \A o \in Owners : /\ state[o] \in State
                              /\ ~Live(o) <=> state[o] = Empty
                              /\ state[o] # Empty => StateValid(o, state[o])
                              /\ state[o].identity <= domain.issued
                              /\ state[o].parent_pin_held =>
                                   /\ state[o].parent_identity # 0
                                   /\ state[o].parent_identity < state[o].identity
<1>1. \A o \in Owners : state[o] \in State BY DEF IInv, TypedAndValid, TypeOK
<1>2. \A o \in Owners : state[o] # Empty => StateValid(o, state[o])
  BY DEF IInv, TypedAndValid, AlwaysValid
<1>3. domain \in Domain /\ DomainValid(domain)
  BY DEF IInv, TypedAndValid, TypeOK, AlwaysValid
<1>4. \A o \in Owners : ~Live(o) <=> state[o] = Empty
  BY <1>2 DEF Live, StateValid, OwnershipValid, Empty
<1>5. \A o \in Owners : state[o].identity <= domain.issued
  BY <1>1, <1>3 DEF IInv, IdentitiesLast, State, Domain
<1>6. \A o \in Owners : state[o].parent_pin_held =>
        state[o].parent_identity # 0 /\ state[o].parent_identity < state[o].identity
  BY <1>1, <1>2 DEF StateValid, OwnershipValid, Empty, State
<1> QED BY <1>1, <1>2, <1>3, <1>4, <1>5, <1>6

(* A step of one owner that keeps its links to the others. *)
LEMMA LinksKept ==
  ASSUME IInv, NEW o \in Owners, NEW t \in State,
         state' = [state EXCEPT ![o] = t], UNCHANGED domain,
         t.identity = state[o].identity, t.parent_identity = state[o].parent_identity,
         t.parent_pin_held = state[o].parent_pin_held,
         t.child_count = state[o].child_count
  PROVE  /\ IdentitiesLast'
         /\ \A q \in Owners : /\ Children(q)' = Children(q)
                              /\ q # o => state'[q] = state[q]
         /\ state'[o] = t
<1>1. \A q \in Owners : /\ state'[q].identity = state[q].identity
                        /\ state'[q].parent_identity = state[q].parent_identity
                        /\ state'[q].parent_pin_held = state[q].parent_pin_held
                        /\ state'[q].child_count = state[q].child_count
                        /\ q # o => state'[q] = state[q]
  BY DEF IInv, TypedAndValid, TypeOK
<1>2. state'[o] = t BY DEF IInv, TypedAndValid, TypeOK
<1> QED BY <1>1, <1>2 DEF IInv, IdentitiesLast, Live, Children

OrderOf(o, n) ==
  /\ ticket[o][n] # "NONE" => Matches(state[o], n)
  /\ Fifo(o) => /\ ticket[o][n] = "ADMITTED" => n >= state[o].serving_ticket
                /\ ticket[o][n] = "ACTIVE" => state[o].active_ticket = n

LEMMA CountsElsewhere ==
  ASSUME IInv, NEW o \in Owners,
         \A q \in Owners : Children(q)' = Children(q),
         \A q \in Owners \ {o} : state'[q] = state[q] /\ ticket'[q] = ticket[q],
         state'[o].child_count = state[o].child_count,
         state'[o].admitted = Cardinality(Pending(o)'),
         state'[o].active = Cardinality(Running(o)'),
         \A n \in Numbers : OrderOf(o, n)'
  PROVE  CountsAreExact' /\ TicketsInOrder'
<1>1. \A q \in Owners \ {o} : Pending(q)' = Pending(q) /\ Running(q)' = Running(q)
  BY DEF Pending, Running
<1>2. CountsAreExact'
  BY <1>1 DEF IInv, CountsAreExact
<1>3. \A q \in Owners \ {o}, n \in Numbers : OrderOf(q, n)'
  BY DEF IInv, TicketsInOrder, OrderOf, Matches
<1>4. TicketsInOrder'
  BY <1>3 DEF TicketsInOrder, OrderOf
<1> QED BY <1>2, <1>4

LEMMA StepAdmit ==
  ASSUME IInv, NEW o \in Owners, Admit(o)
  PROVE  IdentitiesLast' /\ CountsAreExact' /\ TicketsInOrder'
<1> DEFINE s == state[o]  n == s.next_ticket  t == Admitted(s)
<1>1. /\ s \in State /\ StateValid(o, s) /\ t \in State
      /\ s.phase = "OPEN" /\ HasTicket(s) /\ state' = [state EXCEPT ![o] = t]
      /\ ticket' = [ticket EXCEPT ![o][n] = "ADMITTED"] /\ UNCHANGED domain
  BY AdmittedValid, IdentityFacts DEF Admit
<1>2. /\ t.next_ticket = n + 1 /\ t.admitted = s.admitted + 1 /\ t.active = s.active
      /\ t.identity = s.identity /\ t.parent_identity = s.parent_identity
      /\ t.parent_pin_held = s.parent_pin_held /\ t.child_count = s.child_count
      /\ t.close_ticket = s.close_ticket /\ t.serving_ticket = s.serving_ticket
      /\ t.active_ticket = s.active_ticket
  BY <1>1 DEF Admitted, State
<1>3. /\ IdentitiesLast' /\ \A q \in Owners : Children(q)' = Children(q)
      /\ \A q \in Owners \ {o} : state'[q] = state[q]
      /\ state'[o] = t
  <2> HIDE DEF t
  <2> QED BY <1>1, <1>2, LinksKept
<1>4. n \in Numbers /\ s.close_ticket = 0
  BY <1>1 DEF StateValid, OwnershipValid, PhaseValid, HasTicket, State, Numbers
<1>5. ticket \in [Owners -> [Numbers -> TicketPhase]]
  BY DEF IInv, TypedAndValid, TypeOK
<1>6. /\ \A q \in Owners \ {o} : ticket'[q] = ticket[q]
      /\ \A m \in Numbers : ticket'[o][m] = IF m = n THEN "ADMITTED" ELSE ticket[o][m]
  BY <1>1, <1>4, <1>5
<1>7. ticket[o][n] = "NONE"
  BY <1>4 DEF IInv, TicketsInOrder, Matches, Numbers
<1>8. /\ Pending(o)' = Pending(o) \cup {n} /\ n \notin Pending(o)
      /\ Running(o)' = Running(o)
  BY <1>4, <1>6, <1>7 DEF Pending, Running
<1>9. /\ state'[o].admitted = Cardinality(Pending(o)')
      /\ state'[o].active = Cardinality(Running(o)')
  <2>1. Cardinality(Pending(o) \cup {n}) = Cardinality(Pending(o)) + 1
    BY <1>8, FiniteParts, FS_AddElement
  <2> HIDE DEF t
  <2> QED BY <1>2, <1>3, <1>8, <2>1 DEF IInv, CountsAreExact
<1>10. Fifo(o) => n >= s.serving_ticket
  BY <1>1 DEF StateValid, FifoValid, State
<1>11. ASSUME NEW m \in Numbers PROVE OrderOf(o, m)'
  <2>1. OrderOf(o, m) BY DEF IInv, TicketsInOrder, OrderOf
  <2> HIDE DEF t
  <2>2. CASE m = n
    BY <1>2, <1>3, <1>4, <1>6, <1>10, <2>2 DEF OrderOf, Matches, Numbers, State
  <2>3. CASE m # n
    BY <1>1, <1>2, <1>3, <1>4, <1>6, <2>1, <2>3 DEF OrderOf, Matches, Numbers, State
  <2> QED BY <2>2, <2>3
<1> HIDE DEF t
<1> QED BY <1>2, <1>3, <1>6, <1>9, <1>11, CountsElsewhere

LEMMA StepBegin ==
  ASSUME IInv, NEW o \in Owners, NEW n \in Numbers, Begin(o, n)
  PROVE  IdentitiesLast' /\ CountsAreExact' /\ TicketsInOrder'
<1> DEFINE s == state[o]  t == Begun(o, s, n)
<1>1. /\ s \in State /\ t \in State /\ Matches(s, n) /\ Served(o, n)
      /\ ticket[o][n] = "ADMITTED" /\ state' = [state EXCEPT ![o] = t]
      /\ ticket' = [ticket EXCEPT ![o][n] = "ACTIVE"] /\ UNCHANGED domain
  BY BegunValid, IdentityFacts DEF Begin, Served
<1>2. /\ t.active = s.active + 1 /\ t.admitted = s.admitted
      /\ t.active_ticket = IF Fifo(o) THEN n ELSE s.active_ticket
      /\ t.identity = s.identity /\ t.parent_identity = s.parent_identity
      /\ t.parent_pin_held = s.parent_pin_held /\ t.child_count = s.child_count
      /\ t.next_ticket = s.next_ticket /\ t.close_ticket = s.close_ticket
      /\ t.serving_ticket = s.serving_ticket
  BY <1>1 DEF Begun, State
<1> HIDE DEF t
<1>3. /\ IdentitiesLast' /\ \A q \in Owners : Children(q)' = Children(q)
      /\ \A q \in Owners \ {o} : state'[q] = state[q]
      /\ state'[o] = t
  BY <1>1, <1>2, LinksKept
<1>5. ticket \in [Owners -> [Numbers -> TicketPhase]]
  BY DEF IInv, TypedAndValid, TypeOK
<1>6. /\ \A q \in Owners \ {o} : ticket'[q] = ticket[q]
      /\ \A m \in Numbers : ticket'[o][m] = IF m = n THEN "ACTIVE" ELSE ticket[o][m]
  BY <1>1, <1>5
<1>8. /\ Running(o)' = Running(o) \cup {n} /\ n \notin Running(o)
      /\ Pending(o)' = Pending(o)
  BY <1>1, <1>6 DEF Pending, Running
<1>9. /\ state'[o].admitted = Cardinality(Pending(o)')
      /\ state'[o].active = Cardinality(Running(o)')
  <2>1. Cardinality(Running(o) \cup {n}) = Cardinality(Running(o)) + 1
    BY <1>8, FiniteParts, FS_AddElement
  <2> QED BY <1>2, <1>3, <1>8, <2>1 DEF IInv, CountsAreExact
<1>11. ASSUME NEW m \in Numbers PROVE OrderOf(o, m)'
  <2>1. OrderOf(o, m) /\ OrderOf(o, n) BY DEF IInv, TicketsInOrder, OrderOf
  <2>2. CASE m = n
    BY <1>1, <1>2, <1>3, <1>6, <2>2 DEF OrderOf, Matches, Numbers
  <2>3. CASE m # n
    BY <1>1, <1>2, <1>3, <1>6, <2>1, <2>3 DEF OrderOf, Matches, Served, Numbers
  <2> QED BY <2>2, <2>3
<1> QED BY <1>2, <1>3, <1>6, <1>9, <1>11, CountsElsewhere

LEMMA StepComplete ==
  ASSUME IInv, NEW o \in Owners, NEW n \in Numbers, Complete(o, n)
  PROVE  IdentitiesLast' /\ CountsAreExact' /\ TicketsInOrder'
<1> DEFINE s == state[o]  t == Completed(o, s)
<1>1. /\ s \in State /\ t \in State /\ Matches(s, n)
      /\ Fifo(o) => s.active_ticket = n /\ s.serving_ticket = n
      /\ ticket[o][n] = "ACTIVE" /\ state' = [state EXCEPT ![o] = t]
      /\ ticket' = [ticket EXCEPT ![o][n] = "COMPLETED"] /\ UNCHANGED domain
  BY CompletedValid, IdentityFacts DEF Complete, Matches
<1>2. /\ t.active = s.active - 1 /\ t.admitted = s.admitted - 1
      /\ t.active_ticket = IF Fifo(o) THEN 0 ELSE s.active_ticket
      /\ t.serving_ticket = s.serving_ticket + (IF Fifo(o) THEN 1 ELSE 0)
      /\ t.identity = s.identity /\ t.parent_identity = s.parent_identity
      /\ t.parent_pin_held = s.parent_pin_held /\ t.child_count = s.child_count
      /\ t.next_ticket = s.next_ticket /\ t.close_ticket = s.close_ticket
  BY <1>1 DEF Completed, State
<1> HIDE DEF t
<1>3. /\ IdentitiesLast' /\ \A q \in Owners : Children(q)' = Children(q)
      /\ \A q \in Owners \ {o} : state'[q] = state[q]
      /\ state'[o] = t
  BY <1>1, <1>2, LinksKept
<1>5. ticket \in [Owners -> [Numbers -> TicketPhase]]
  BY DEF IInv, TypedAndValid, TypeOK
<1>6. /\ \A q \in Owners \ {o} : ticket'[q] = ticket[q]
      /\ \A m \in Numbers : ticket'[o][m] = IF m = n THEN "COMPLETED" ELSE ticket[o][m]
  BY <1>1, <1>5
<1>8. /\ Running(o)' = Running(o) \ {n} /\ n \in Running(o)
      /\ Pending(o)' = Pending(o) \ {n} /\ n \in Pending(o)
  BY <1>1, <1>6 DEF Pending, Running
<1>9. /\ state'[o].admitted = Cardinality(Pending(o)')
      /\ state'[o].active = Cardinality(Running(o)')
  <2>1. /\ Cardinality(Running(o) \ {n}) = Cardinality(Running(o)) - 1
        /\ Cardinality(Pending(o) \ {n}) = Cardinality(Pending(o)) - 1
    BY <1>8, FiniteParts, FS_RemoveElement
  <2> QED BY <1>2, <1>3, <1>8, <2>1 DEF IInv, CountsAreExact
<1>11. ASSUME NEW m \in Numbers PROVE OrderOf(o, m)'
  <2>1. OrderOf(o, m) /\ OrderOf(o, n) BY DEF IInv, TicketsInOrder, OrderOf
  <2>2. CASE m = n
    BY <1>1, <1>2, <1>3, <1>6, <2>2 DEF OrderOf, Matches, Numbers
  <2>3. CASE m # n
    BY <1>1, <1>2, <1>3, <1>6, <2>1, <2>3 DEF OrderOf, Matches, Numbers, State
  <2> QED BY <2>2, <2>3
<1> QED BY <1>2, <1>3, <1>6, <1>9, <1>11, CountsElsewhere

(* The steps of a close touch no ticket. *)
LEMMA StepCloseRequest ==
  ASSUME IInv, NEW o \in Owners, CloseRequest(o)
  PROVE  IdentitiesLast' /\ CountsAreExact' /\ TicketsInOrder'
<1> DEFINE s == state[o]  t == CloseRequested(s)
<1>1. /\ s \in State /\ t \in State /\ StateValid(o, s) /\ s.phase = "OPEN"
      /\ state' = [state EXCEPT ![o] = t] /\ UNCHANGED <<domain, ticket>>
  BY CloseRequestedValid, IdentityFacts DEF CloseRequest
<1>2. /\ t.close_ticket = s.next_ticket /\ s.next_ticket # 0
      /\ t.next_ticket = IF s.next_ticket = MaxTicket THEN MaxTicket
                                                     ELSE s.next_ticket + 1
      /\ t.active = s.active /\ t.admitted = s.admitted
      /\ t.active_ticket = s.active_ticket /\ t.serving_ticket = s.serving_ticket
      /\ t.identity = s.identity /\ t.parent_identity = s.parent_identity
      /\ t.parent_pin_held = s.parent_pin_held /\ t.child_count = s.child_count
  BY <1>1 DEF CloseRequested, CloseNumber, State, StateValid, OwnershipValid
<1> HIDE DEF t
<1>3. /\ IdentitiesLast' /\ \A q \in Owners : Children(q)' = Children(q)
      /\ \A q \in Owners \ {o} : state'[q] = state[q]
      /\ state'[o] = t
  BY <1>1, <1>2, LinksKept
<1>4. Pending(o)' = Pending(o) /\ Running(o)' = Running(o)
  BY <1>1 DEF Pending, Running
<1>5. /\ state'[o].admitted = Cardinality(Pending(o)')
      /\ state'[o].active = Cardinality(Running(o)')
  BY <1>2, <1>3, <1>4 DEF IInv, CountsAreExact
<1>6. ASSUME NEW m \in Numbers PROVE OrderOf(o, m)'
  <2>1. OrderOf(o, m) BY DEF IInv, TicketsInOrder, OrderOf
  <2> QED BY <1>1, <1>2, <1>3, <2>1 DEF OrderOf, Matches, Numbers, State
<1> QED BY <1>1, <1>2, <1>3, <1>5, <1>6, CountsElsewhere

LEMMA DrainedIsEmpty ==
  ASSUME IInv, NEW o \in Owners, Drained(state[o])
  PROVE  Pending(o) = {} /\ Running(o) = {} /\ Children(o) = {}
BY FiniteParts, FS_EmptySet DEF IInv, CountsAreExact, Drained

LEMMA StepCloseBegin ==
  ASSUME IInv, NEW o \in Owners, CloseBegin(o)
  PROVE  IdentitiesLast' /\ CountsAreExact' /\ TicketsInOrder'
<1> DEFINE s == state[o]  t == CloseBegun(o, s)
<1>1. /\ s \in State /\ t \in State /\ Ready(s)
      /\ state' = [state EXCEPT ![o] = t] /\ UNCHANGED <<domain, ticket>>
  BY CloseBegunValid, IdentityFacts DEF CloseBegin
<1>2. /\ t.close_ticket = s.close_ticket /\ t.next_ticket = s.next_ticket
      /\ t.active = s.active /\ t.admitted = s.admitted
      /\ t.serving_ticket = s.serving_ticket
      /\ t.identity = s.identity /\ t.parent_identity = s.parent_identity
      /\ t.parent_pin_held = s.parent_pin_held /\ t.child_count = s.child_count
  BY <1>1 DEF CloseBegun, State
<1> HIDE DEF t
<1>3. /\ IdentitiesLast' /\ \A q \in Owners : Children(q)' = Children(q)
      /\ \A q \in Owners \ {o} : state'[q] = state[q]
      /\ state'[o] = t
  BY <1>1, <1>2, LinksKept
<1>4. /\ Pending(o)' = Pending(o) /\ Running(o)' = Running(o) /\ Pending(o) = {}
  BY <1>1, DrainedIsEmpty DEF Pending, Running, Ready
<1>5. /\ state'[o].admitted = Cardinality(Pending(o)')
      /\ state'[o].active = Cardinality(Running(o)')
  BY <1>2, <1>3, <1>4 DEF IInv, CountsAreExact
<1>6. ASSUME NEW m \in Numbers PROVE OrderOf(o, m)'
  <2>1. OrderOf(o, m) BY DEF IInv, TicketsInOrder, OrderOf
  <2>2. ticket'[o][m] = ticket[o][m] /\ ticket[o][m] \notin {"ADMITTED", "ACTIVE"}
    BY <1>1, <1>4 DEF Pending
  <2> QED BY <1>2, <1>3, <2>1, <2>2 DEF OrderOf, Matches
<1> QED BY <1>1, <1>2, <1>3, <1>5, <1>6, CountsElsewhere

LEMMA StepCloseComplete ==
  ASSUME IInv, NEW o \in Owners, NEW r \in {"SUCCEEDED", "FAILED"}, CloseComplete(o, r)
  PROVE  IdentitiesLast' /\ CountsAreExact' /\ TicketsInOrder'
<1> DEFINE s == state[o]  t == CloseCompleted(o, s, r)
<1>1. /\ s \in State /\ t \in State /\ Drained(s)
      /\ state' = [state EXCEPT ![o] = t] /\ UNCHANGED <<domain, ticket>>
  BY CloseCompletedValid, IdentityFacts DEF CloseComplete
<1>2. /\ t.close_ticket = s.close_ticket /\ t.next_ticket = s.next_ticket
      /\ t.active = s.active /\ t.admitted = s.admitted
      /\ t.identity = s.identity /\ t.parent_identity = s.parent_identity
      /\ t.parent_pin_held = s.parent_pin_held /\ t.child_count = s.child_count
  BY <1>1 DEF CloseCompleted, State
<1> HIDE DEF t
<1>3. /\ IdentitiesLast' /\ \A q \in Owners : Children(q)' = Children(q)
      /\ \A q \in Owners \ {o} : state'[q] = state[q]
      /\ state'[o] = t
  BY <1>1, <1>2, LinksKept
<1>4. /\ Pending(o)' = Pending(o) /\ Running(o)' = Running(o) /\ Pending(o) = {}
  BY <1>1, DrainedIsEmpty DEF Pending, Running
<1>5. /\ state'[o].admitted = Cardinality(Pending(o)')
      /\ state'[o].active = Cardinality(Running(o)')
  BY <1>2, <1>3, <1>4 DEF IInv, CountsAreExact
<1>6. ASSUME NEW m \in Numbers PROVE OrderOf(o, m)'
  <2>1. OrderOf(o, m) BY DEF IInv, TicketsInOrder, OrderOf
  <2>2. ticket'[o][m] = ticket[o][m] /\ ticket[o][m] \notin {"ADMITTED", "ACTIVE"}
    BY <1>1, <1>4 DEF Pending
  <2> QED BY <1>2, <1>3, <2>1, <2>2 DEF OrderOf, Matches
<1> QED BY <1>1, <1>2, <1>3, <1>5, <1>6, CountsElsewhere

(* A new owner takes an identity nobody has or is a child of. *)
LEMMA FreshOwner ==
  ASSUME IInv, NEW o \in Owners, state[o] = Empty
  PROVE  /\ \A n \in Numbers : ticket[o][n] = "NONE"
         /\ Pending(o) = {} /\ Running(o) = {}
<1>1. \A n \in Numbers : ticket[o][n] = "NONE"
  BY DEF IInv, TicketsInOrder, Matches, Empty, Numbers
<1> QED BY <1>1 DEF Pending, Running

LEMMA StepInitRoot ==
  ASSUME IInv, NEW o \in Owners, InitRoot(o)
  PROVE  /\ IdentitiesLast' /\ CountsAreExact' /\ TicketsInOrder'
         /\ \A q \in Owners : Children(q)' = Children(q)
<1> DEFINE t == NewState(o, domain.next, 0)
<1>1. /\ o \in Runtimes /\ state[o] = Empty /\ state' = [state EXCEPT ![o] = t]
      /\ domain' = Allocated(domain) /\ UNCHANGED ticket
      /\ domain'.issued = domain.issued + 1 /\ domain.next = domain.issued + 1
      /\ domain.issued \in 0 .. MaxIdentity
  BY IdentityFacts, AllocatedType DEF InitRoot, Domain
<1>2. /\ t.identity = domain.next /\ t.parent_identity = 0 /\ ~t.parent_pin_held
      /\ t.admitted = 0 /\ t.active = 0 /\ t.child_count = 0
  BY DEF NewState
<1> HIDE DEF t
<1>3. /\ state'[o] = t /\ \A q \in Owners \ {o} : state'[q] = state[q]
  BY <1>1 DEF IInv, TypedAndValid, TypeOK
<1>4. IdentitiesLast'
  <2>1. \A q \in Owners : state[q].identity <= domain.issued /\ state[q] \in State
    BY IdentityFacts
  <2> QED BY <1>1, <1>2, <1>3, <2>1 DEF IInv, IdentitiesLast, Live, State
<1>5. /\ \A q \in Owners \ {o} : /\ Children(q)' = Children(q)
                               /\ Pending(q)' = Pending(q) /\ Running(q)' = Running(q)
      /\ Children(o)' = {} /\ Pending(o)' = {} /\ Running(o)' = {}
  <2>1. Pending(o)' = {} /\ Running(o)' = {}
    BY <1>1, FreshOwner DEF Pending, Running
  <2>2. \A c \in Owners : state'[c].parent_pin_held =>
          state'[c] = state[c] /\ state[c].parent_identity < domain.next
    BY <1>1, <1>2, <1>3, IdentityFacts DEF State
  <2>3. Children(o)' = {}
    BY <1>1, <1>2, <1>3, <2>2, IdentityFacts DEF Children, State
  <2>4. \A q \in Owners \ {o} : Children(q)' = Children(q)
    BY <1>1, <1>2, <1>3 DEF Children, Empty
  <2> QED BY <1>1, <2>1, <2>3, <2>4 DEF Pending, Running
<1>6. CountsAreExact'
  BY <1>2, <1>3, <1>5, FS_EmptySet DEF IInv, CountsAreExact
<1>7. TicketsInOrder'
  BY <1>1, <1>3, FreshOwner DEF IInv, TicketsInOrder, Matches
<1>8. Children(o) = {}
  <2>1. \A x \in Owners : state[x].parent_pin_held => state[x].parent_identity # 0
    BY IdentityFacts
  <2>2. state[o].identity = 0 BY <1>1 DEF Empty
  <2> QED BY <2>1, <2>2 DEF Children
<1> QED BY <1>4, <1>5, <1>6, <1>7, <1>8

LEMMA StepInitChild ==
  ASSUME IInv, NEW p \in Owners, NEW c \in Owners, InitChild(p, c)
  PROVE  /\ IdentitiesLast' /\ CountsAreExact' /\ TicketsInOrder'
         /\ Children(p)' = Children(p) \cup {c}
         /\ \A q \in Owners \ {p} : Children(q)' = Children(q)
         /\ \A q \in Owners \ {c} : /\ state'[q].phase = state[q].phase
                                   /\ state'[q].close_state = state[q].close_state
         /\ state'[c].phase = "OPEN" /\ state'[c].close_state = "NONE"
<1> DEFINE u == WithChild(state[p])  t == NewState(c, domain.next, state[p].identity)
<1>1. /\ state[c] = Empty /\ StateValid(p, state[p])
      /\ state' = [state EXCEPT ![p] = u, ![c] = t]
      /\ domain' = Allocated(domain) /\ UNCHANGED ticket
      /\ domain'.issued = domain.issued + 1 /\ domain.next = domain.issued + 1
      /\ domain.issued \in 0 .. MaxIdentity
  BY IdentityFacts, AllocatedType DEF InitChild, Domain
<1>a. /\ domain'.issued = domain.issued + 1 /\ domain.next = domain.issued + 1
      /\ domain.issued \in Nat /\ ticket' = ticket /\ p \in Owners /\ c \in Owners
  BY <1>1
<1>2. /\ state[p] \in State /\ Live(p) /\ p # c
  BY <1>1, IdentityFacts DEF StateValid, OwnershipValid, Live, Empty
<1>3. /\ t.identity = domain.next /\ t.parent_identity = state[p].identity
      /\ t.parent_pin_held /\ t.phase = "OPEN" /\ t.close_state = "NONE"
      /\ t.admitted = 0 /\ t.active = 0 /\ t.child_count = 0
  BY <1>2 DEF NewState, Live
<1>4. /\ u.child_count = state[p].child_count + 1
      /\ u.identity = state[p].identity /\ u.parent_identity = state[p].parent_identity
      /\ u.parent_pin_held = state[p].parent_pin_held
      /\ u.phase = state[p].phase /\ u.close_state = state[p].close_state
      /\ u.admitted = state[p].admitted /\ u.active = state[p].active
      /\ u.next_ticket = state[p].next_ticket /\ u.close_ticket = state[p].close_ticket
      /\ u.serving_ticket = state[p].serving_ticket
      /\ u.active_ticket = state[p].active_ticket
  BY <1>2 DEF WithChild, State
<1> HIDE DEF t, u
<1>5. /\ state'[c] = t /\ state'[p] = u
      /\ \A q \in Owners \ {p, c} : state'[q] = state[q]
  BY <1>1, <1>2 DEF IInv, TypedAndValid, TypeOK
<1>6. /\ \A q \in Owners \ {c} :
        /\ state'[q].identity = state[q].identity
        /\ state'[q].parent_identity = state[q].parent_identity
        /\ state'[q].parent_pin_held = state[q].parent_pin_held
        /\ state'[q].admitted = state[q].admitted /\ state'[q].active = state[q].active
        /\ state'[q].next_ticket = state[q].next_ticket
        /\ state'[q].close_ticket = state[q].close_ticket
        /\ state'[q].serving_ticket = state[q].serving_ticket
        /\ state'[q].active_ticket = state[q].active_ticket
      /\ \A q \in Owners \ {p, c} : state'[q].child_count = state[q].child_count
      /\ state'[p].child_count = state[p].child_count + 1
  BY <1>4, <1>5
<1>7. /\ state'[c].identity = domain.next /\ state'[c].parent_identity = state[p].identity
      /\ state'[c].parent_pin_held /\ state'[c].admitted = 0 /\ state'[c].active = 0
      /\ state'[c].child_count = 0
      /\ ~state[c].parent_pin_held /\ state[c].identity = 0
  BY <1>1, <1>3, <1>5 DEF Empty
<1>8. \A q \in Owners : /\ state[q].identity \in 0 .. domain.issued
                        /\ state[q].child_count \in Nat
                        /\ state[q].parent_pin_held => state[q].parent_identity < domain.next
                        /\ state[q].identity + state[q].child_count <= domain.issued
  BY <1>1, IdentityFacts DEF State, IInv, IdentitiesLast
<1>9. \A q \in Owners \ {p} : state[q].identity # state[p].identity
  BY <1>2 DEF IInv, IdentitiesLast
<1>10. IdentitiesLast'
  <2>1. \A q \in Owners, x \in Owners :
          (Live(q) /\ state[q].identity = state[x].identity => q = x)'
    <3> SUFFICES ASSUME NEW q \in Owners, NEW x \in Owners, state'[q].identity # 0,
                        state'[q].identity = state'[x].identity
                 PROVE  q = x
      BY DEF Live
    <3>1. q = c <=> x = c BY <1>a, <1>6, <1>7, <1>8
    <3> QED BY <3>1, <1>6 DEF IInv, IdentitiesLast, Live
  <2>2. \A q \in Owners : (state[q].identity + state[q].child_count <= domain.issued)'
    <3> TAKE q \in Owners
    <3>1. CASE q = c BY <3>1, <1>a, <1>7
    <3>2. CASE q = p 
      <4>1. state'[p].identity + state'[p].child_count =
              (state[p].identity + state[p].child_count) + 1
        BY <1>2, <1>6, <1>8
      <4> QED BY <4>1, <3>2, <1>a, <1>8
    <3>3. CASE q \notin {p, c} 
      <4>1. state'[q].identity + state'[q].child_count =
              state[q].identity + state[q].child_count
        BY <3>3, <1>6
      <4> QED BY <4>1, <1>a, <1>8
    <3> QED BY <3>1, <3>2, <3>3
  <2> QED BY <2>1, <2>2 DEF IdentitiesLast
<1>11. Children(p)' = Children(p) \cup {c} /\ c \notin Children(p)
  BY <1>2, <1>6, <1>7 DEF Children
<1>12. Children(c)' = {}
  <2>1. \A x \in Owners \ {c} : state[x].parent_pin_held =>
          state'[x].parent_identity # state'[c].identity
    BY <1>6, <1>7, <1>8, <1>a
  <2>2. state'[c].parent_identity # state'[c].identity
    BY <1>7, <1>8, <1>a
  <2> QED BY <2>1, <2>2, <1>6 DEF Children
<1>13. \A q \in Owners \ {p, c} : Children(q)' = Children(q)
  BY <1>6, <1>7, <1>9 DEF Children
<1>14. /\ \A q \in Owners : Pending(q)' = Pending(q) /\ Running(q)' = Running(q)
       /\ Pending(c) = {} /\ Running(c) = {}
  BY <1>1, FreshOwner DEF Pending, Running
<1>15. CountsAreExact'
  <2>1. Cardinality(Children(p) \cup {c}) = Cardinality(Children(p)) + 1
    BY <1>11, FiniteParts, FS_AddElement
  <2> SUFFICES ASSUME NEW q \in Owners
               PROVE  /\ state'[q].admitted = Cardinality(Pending(q)')
                      /\ state'[q].active = Cardinality(Running(q)')
                      /\ state'[q].child_count = Cardinality(Children(q)')
    BY DEF CountsAreExact
  <2>2. CASE q = c BY <2>2, <1>7, <1>12, <1>14, FS_EmptySet
  <2>3. CASE q = p BY <2>1, <2>3, <1>2, <1>6, <1>11, <1>14 DEF IInv, CountsAreExact
  <2>4. CASE q \notin {p, c} BY <2>4, <1>6, <1>13, <1>14 DEF IInv, CountsAreExact
  <2> QED BY <2>2, <2>3, <2>4
<1>16. TicketsInOrder'
  <2>1. \A n \in Numbers : ticket[c][n] = "NONE" BY <1>1, FreshOwner
  <2>2. \A q \in Owners \ {c}, n \in Numbers : OrderOf(q, n)'
    BY <1>a, <1>6 DEF IInv, TicketsInOrder, OrderOf, Matches
  <2>3. \A n \in Numbers : OrderOf(c, n)'
    BY <1>a, <2>1 DEF OrderOf
  <2> QED BY <2>2, <2>3 DEF TicketsInOrder, OrderOf
<1>17. Children(c) = {}
  <2>1. \A x \in Owners : state[x].parent_pin_held => state[x].parent_identity # 0
    BY IdentityFacts
  <2> QED BY <2>1, <1>7 DEF Children
<1>18. /\ \A q \in Owners \ {c} : /\ state'[q].phase = state[q].phase
                                /\ state'[q].close_state = state[q].close_state
       /\ state'[c].phase = "OPEN" /\ state'[c].close_state = "NONE"
  BY <1>3, <1>4, <1>5
<1> QED BY <1>10, <1>11, <1>12, <1>13, <1>15, <1>16, <1>17, <1>18

LEMMA StepParentPinRelease ==
  ASSUME IInv, NEW p \in Owners, NEW c \in Owners, ParentPinRelease(p, c)
  PROVE  /\ IdentitiesLast' /\ CountsAreExact' /\ TicketsInOrder'
         /\ Children(p)' = Children(p) \ {c} /\ c \in Children(p)
         /\ \A q \in Owners \ {p} : Children(q)' = Children(q)
         /\ \A q \in Owners : /\ state'[q].phase = state[q].phase
                             /\ state'[q].close_state = state[q].close_state
<1> DEFINE u == WithoutChild(state[p])  t == Unpinned(state[c])
<1>1. /\ state[c].parent_identity = state[p].identity /\ state[c].parent_pin_held
      /\ state' = [state EXCEPT ![p] = u, ![c] = t] /\ UNCHANGED <<domain, ticket>>
      /\ StateValid(p, state[p]) /\ p # c
      /\ state[p] \in State /\ state[c] \in State
  BY IdentityFacts DEF ParentPinRelease, MayUnpin, State
<1>a. /\ domain' = domain /\ ticket' = ticket /\ p # c
      /\ state[c].parent_identity = state[p].identity /\ state[c].parent_pin_held
  BY <1>1
<1>2. /\ u.child_count = state[p].child_count - 1
      /\ u.identity = state[p].identity /\ u.parent_identity = state[p].parent_identity
      /\ u.parent_pin_held = state[p].parent_pin_held
      /\ u.phase = state[p].phase /\ u.close_state = state[p].close_state
      /\ u.admitted = state[p].admitted /\ u.active = state[p].active
      /\ u.next_ticket = state[p].next_ticket /\ u.close_ticket = state[p].close_ticket
      /\ u.serving_ticket = state[p].serving_ticket
      /\ u.active_ticket = state[p].active_ticket
  BY <1>1 DEF WithoutChild, State
<1>3. /\ ~t.parent_pin_held /\ t.child_count = state[c].child_count
      /\ t.identity = state[c].identity /\ t.parent_identity = state[c].parent_identity
      /\ t.phase = state[c].phase /\ t.close_state = state[c].close_state
      /\ t.admitted = state[c].admitted /\ t.active = state[c].active
      /\ t.next_ticket = state[c].next_ticket /\ t.close_ticket = state[c].close_ticket
      /\ t.serving_ticket = state[c].serving_ticket
      /\ t.active_ticket = state[c].active_ticket
  BY <1>1 DEF Unpinned, State
<1> HIDE DEF t, u
<1>4. /\ state'[c] = t /\ state'[p] = u
      /\ \A q \in Owners \ {p, c} : state'[q] = state[q]
  BY <1>1 DEF IInv, TypedAndValid, TypeOK
<1>5. /\ \A q \in Owners :
        /\ state'[q].identity = state[q].identity
        /\ state'[q].parent_identity = state[q].parent_identity
        /\ state'[q].admitted = state[q].admitted /\ state'[q].active = state[q].active
        /\ state'[q].next_ticket = state[q].next_ticket
        /\ state'[q].close_ticket = state[q].close_ticket
        /\ state'[q].serving_ticket = state[q].serving_ticket
        /\ state'[q].active_ticket = state[q].active_ticket
      /\ \A q \in Owners \ {c} :
           state'[q].parent_pin_held = state[q].parent_pin_held
      /\ ~state'[c].parent_pin_held
      /\ \A q \in Owners \ {p} : state'[q].child_count = state[q].child_count
      /\ state'[p].child_count = state[p].child_count - 1
  BY <1>1, <1>2, <1>3, <1>4
<1>6. IdentitiesLast'
  <2>1. \A q \in Owners : /\ state[q].identity \in Nat /\ state[q].child_count \in Nat
                          /\ state[q].identity + state[q].child_count <= domain.issued
    BY IdentityFacts DEF State, IInv, IdentitiesLast
  <2>2. \A q \in Owners : state'[q].identity + state'[q].child_count <= domain.issued
    <3> TAKE q \in Owners
    <3>1. domain.issued \in Nat BY IdentityFacts DEF Domain
    <3>2. CASE q = p BY <1>5, <2>1, <3>1, <3>2
    <3>3. CASE q # p BY <1>5, <2>1, <3>3
    <3> QED BY <3>2, <3>3
  <2> QED BY <1>a, <1>5, <2>2 DEF IInv, IdentitiesLast, Live
<1>7. Children(p)' = Children(p) \ {c} /\ c \in Children(p)
  BY <1>a, <1>5 DEF Children
<1>8. \A q \in Owners \ {p} : Children(q)' = Children(q)
  <2>1. \A q \in Owners \ {p} : state[q].identity # state[p].identity
    BY <1>1 DEF IInv, IdentitiesLast, Live, StateValid, OwnershipValid
  <2>2. \A q \in Owners \ {p}, x \in Owners : x \in Children(q)' <=> x \in Children(q)
    BY <1>a, <1>5, <2>1 DEF Children
  <2> QED BY <2>2 DEF Children
<1>9. CountsAreExact'
  <2>1. Cardinality(Children(p) \ {c}) = Cardinality(Children(p)) - 1
    BY <1>7, FiniteParts, FS_RemoveElement
  <2>2. \A q \in Owners : Pending(q)' = Pending(q) /\ Running(q)' = Running(q)
    BY <1>1 DEF Pending, Running
  <2> SUFFICES ASSUME NEW q \in Owners
               PROVE  /\ state'[q].admitted = Cardinality(Pending(q)')
                      /\ state'[q].active = Cardinality(Running(q)')
                      /\ state'[q].child_count = Cardinality(Children(q)')
    BY DEF CountsAreExact
  <2>3. CASE q = p BY <2>1, <2>2, <2>3, <1>5, <1>7 DEF IInv, CountsAreExact
  <2>4. CASE q # p BY <2>2, <2>4, <1>5, <1>8 DEF IInv, CountsAreExact
  <2> QED BY <2>3, <2>4
<1>10. TicketsInOrder'
  <2>1. \A q \in Owners, n \in Numbers : OrderOf(q, n)'
    BY <1>a, <1>5 DEF IInv, TicketsInOrder, OrderOf, Matches
  <2> QED BY <2>1 DEF TicketsInOrder, OrderOf
<1>11. \A q \in Owners : /\ state'[q].phase = state[q].phase
                        /\ state'[q].close_state = state[q].close_state
  BY <1>2, <1>3, <1>4
<1> QED BY <1>6, <1>7, <1>8, <1>9, <1>10, <1>11

LEMMA StepIInv == IInv /\ [Next]_vars => IInv'
<1> SUFFICES ASSUME IInv, [Next]_vars PROVE IInv'
  OBVIOUS
<1>1. TypedAndValid' BY StepTypedAndValid DEF IInv
<1>2. CASE Next
  <2>1. IdentitiesLast' /\ CountsAreExact' /\ TicketsInOrder'
    BY <1>2, NextCases, StepInitRoot, StepInitChild, StepAdmit, StepBegin, StepComplete,
       StepCloseRequest, StepCloseBegin, StepCloseComplete, StepParentPinRelease
  <2> QED BY <1>1, <2>1 DEF IInv
<1>3. CASE UNCHANGED vars
  BY <1>1, <1>3 DEF vars, IInv, IdentitiesLast, Live, CountsAreExact, Pending, Running,
                    Children, TicketsInOrder, Matches
<1> QED BY <1>2, <1>3

(* The inductive invariant holds throughout: every record is typed and     *)
(* valid, its counters are the tickets and children they stand for, and    *)
(* the tickets of a context are in order.                                  *)
THEOREM Invariance == Spec => []IInv
BY InitIInv, StepIInv, PTL DEF Spec

-----------------------------------------------------------------------------
(* Identities name one owner each, and the children of an owner fit in the *)
(* identities behind its own (vx_runtime_lifecycle_state_init_child_v1).   *)
THEOREM IdentitiesNeverClash == Spec => []IdentitiesLast
<1>1. IInv => IdentitiesLast BY DEF IInv
<1> QED BY <1>1, Invariance, PTL

(* The admitted, active and child counters of a record are the numbers of  *)
(* tickets out, of tickets running and of children that hold a pin.        *)
THEOREM CountersCount == Spec => []CountsAreExact
<1>1. IInv => CountsAreExact BY DEF IInv
<1> QED BY <1>1, Invariance, PTL

(* An accepted ticket is never refused by operation_begin or _complete,    *)
(* whatever the other tickets and a close do in the meantime.              *)
THEOREM AcceptedTicketsHonoured == Spec => []AcceptedIsHonoured
<1>1. IInv => AcceptedIsHonoured
  <2> SUFFICES ASSUME IInv, NEW o \in Owners, NEW n \in Numbers, n \in Pending(o)
               PROVE  /\ state[o].phase # "CLOSED" /\ Matches(state[o], n)
                      /\ ticket[o][n] = "ADMITTED" =>
                           /\ state[o].active < state[o].admitted
                           /\ Fifo(o) => n >= state[o].serving_ticket
                      /\ ticket[o][n] = "ACTIVE" =>
                           /\ state[o].active # 0
                           /\ Fifo(o) => state[o].active_ticket = n
    BY DEF AcceptedIsHonoured, Pending
  <2>1. /\ state[o].admitted = Cardinality(Pending(o))
        /\ state[o].active = Cardinality(Running(o))
        /\ state[o] \in State
        /\ state[o] # Empty => StateValid(o, state[o])
    BY IdentityFacts DEF IInv, CountsAreExact
  <2>2. ticket[o][n] # "NONE" /\ Matches(state[o], n) /\ state[o] # Empty
    <3>1. state[o] = Empty => ticket[o][n] = "NONE" BY FreshOwner
    <3> QED BY <3>1 DEF IInv, TicketsInOrder, Pending
  <2>3. Pending(o) # {} /\ state[o].admitted # 0
    BY <2>1, FiniteParts, FS_EmptySet
  <2>4. state[o].phase # "CLOSED"
    <3>1. StateValid(o, state[o]) BY <2>1, <2>2
    <3> QED BY <2>3, <3>1 DEF StateValid, PhaseValid
  <2>5. ASSUME ticket[o][n] = "ADMITTED" PROVE state[o].active < state[o].admitted
    <3>1. Running(o) \in SUBSET Pending(o) /\ Running(o) # Pending(o)
      BY <2>5 DEF Running, Pending
    <3>2. /\ Cardinality(Running(o)) <= Cardinality(Pending(o))
          /\ Cardinality(Running(o)) # Cardinality(Pending(o))
      BY <3>1, FiniteParts, FS_Subset
    <3>3. state[o].active \in Nat /\ state[o].admitted \in Nat BY <2>1 DEF State
    <3>4. state[o].active <= state[o].admitted /\ state[o].active # state[o].admitted
      BY <2>1, <3>2
    <3> QED BY <3>3, <3>4
  <2>6. ASSUME ticket[o][n] = "ACTIVE" PROVE state[o].active # 0
    BY <2>1, <2>6, FiniteParts, FS_EmptySet DEF Running
  <2> QED BY <2>2, <2>4, <2>5, <2>6 DEF IInv, TicketsInOrder
<1> QED BY <1>1, Invariance, PTL

(* No owner is closed while a child holds a pin on it or a ticket of it is *)
(* out (vx_runtime_lifecycle_close_readiness_v1).                          *)
THEOREM ClosedMeansAlone == Spec => []ParentOutlivesChildren
<1>1. IInv => ParentOutlivesChildren
  <2> SUFFICES ASSUME IInv, NEW o \in Owners, state[o].phase = "CLOSED"
               PROVE  Children(o) = {} /\ Pending(o) = {}
    BY DEF ParentOutlivesChildren
  <2>1. Drained(state[o])
    BY IdentityFacts DEF StateValid, PhaseValid, Drained, Empty
  <2> QED BY <2>1, DrainedIsEmpty
<1> QED BY <1>1, Invariance, PTL

-----------------------------------------------------------------------------
(* RuntimeLifecycle implements OwnerLifecycle: a call on counters, tickets *)
(* and identities is one step on the sets they stand for.                  *)

HIDE LifecycleConstants

(* The refined variables, owner by owner. *)
PhaseMap == [o \in Owners |-> state[o].phase]
ClosingSet == {o \in Owners : state[o].close_state = "ACTIVE"}
PendingMap == [o \in Owners |-> Pending(o)]
RunningMap == [o \in Owners |-> Running(o)]
ChildrenMap == [o \in Owners |-> Children(o)]

LEMMA PromiseNext ==
  ASSUME NEW o \in Owners,
         \/ Promise!OpenRoot(o) \/ Promise!RequestClose(o)
         \/ Promise!StartClose(o) \/ Promise!EndClose(o)
         \/ \E c \in Owners : Promise!OpenChild(o, c) \/ Promise!Unpin(o, c)
         \/ \E n \in Numbers : \/ Promise!Accept(o, n) \/ Promise!Run(o, n)
                               \/ Promise!Finish(o, n)
  PROVE  Promise!Next
BY DEF Promise!Next, Promise!Owners, Owners

(* What an operation on one record leaves alone in the refined state. *)
LEMMA LinksMapped ==
  ASSUME IInv, NEW o \in Owners, NEW t \in State, state' = [state EXCEPT ![o] = t],
         t.identity = state[o].identity, t.parent_identity = state[o].parent_identity,
         t.parent_pin_held = state[o].parent_pin_held
  PROVE  /\ ChildrenMap' = ChildrenMap
         /\ t.phase = state[o].phase => PhaseMap' = PhaseMap
         /\ PhaseMap' = [PhaseMap EXCEPT ![o] = t.phase]
         /\ (t.close_state = "ACTIVE" <=> state[o].close_state = "ACTIVE")
              => ClosingSet' = ClosingSet
         /\ t.close_state = "ACTIVE" => ClosingSet' = ClosingSet \cup {o}
         /\ t.close_state # "ACTIVE" => ClosingSet' = ClosingSet \ {o}
<1>1. \A q \in Owners : state'[q] = IF q = o THEN t ELSE state[q]
  BY DEF IInv, TypedAndValid, TypeOK
<1>2. \A q \in Owners : /\ state'[q].parent_pin_held = state[q].parent_pin_held
                        /\ state'[q].parent_identity = state[q].parent_identity
                        /\ state'[q].identity = state[q].identity
                        /\ state'[q].phase = IF q = o THEN t.phase ELSE state[q].phase
                        /\ state'[q].close_state =
                             IF q = o THEN t.close_state ELSE state[q].close_state
  BY <1>1
<1>3. ChildrenMap' = ChildrenMap
  BY <1>2 DEF ChildrenMap, Children
<1>4. /\ t.phase = state[o].phase => PhaseMap' = PhaseMap
      /\ PhaseMap' = [PhaseMap EXCEPT ![o] = t.phase]
  BY <1>2 DEF PhaseMap
<1>5. /\ (t.close_state = "ACTIVE" <=> state[o].close_state = "ACTIVE")
           => ClosingSet' = ClosingSet
      /\ t.close_state = "ACTIVE" => ClosingSet' = ClosingSet \cup {o}
      /\ t.close_state # "ACTIVE" => ClosingSet' = ClosingSet \ {o}
  BY <1>2 DEF ClosingSet
<1> QED BY <1>3, <1>4, <1>5

(* One ticket of one owner moves to another phase. *)
LEMMA TicketMapped ==
  ASSUME IInv, NEW o \in Owners, NEW n \in Numbers, NEW ph \in TicketPhase,
         ticket' = [ticket EXCEPT ![o][n] = ph]
  PROVE  /\ PendingMap' = [PendingMap EXCEPT ![o] =
                             IF ph \in {"ADMITTED", "ACTIVE"} THEN Pending(o) \cup {n}
                                                             ELSE Pending(o) \ {n}]
         /\ RunningMap' = [RunningMap EXCEPT ![o] =
                             IF ph = "ACTIVE" THEN Running(o) \cup {n}
                                              ELSE Running(o) \ {n}]
<1>1. \A q \in Owners, m \in Numbers :
        ticket'[q][m] = IF q = o /\ m = n THEN ph ELSE ticket[q][m]
  BY DEF IInv, TypedAndValid, TypeOK
<1>2. \A q \in Owners \ {o} : Pending(q)' = Pending(q) /\ Running(q)' = Running(q)
  BY <1>1 DEF Pending, Running
<1>3. Pending(o)' = IF ph \in {"ADMITTED", "ACTIVE"} THEN Pending(o) \cup {n}
                                                    ELSE Pending(o) \ {n}
  BY <1>1 DEF Pending
<1>4. Running(o)' = IF ph = "ACTIVE" THEN Running(o) \cup {n} ELSE Running(o) \ {n}
  BY <1>1 DEF Running
<1> QED BY <1>2, <1>3, <1>4 DEF PendingMap, RunningMap

LEMMA TicketsUnmoved ==
  ASSUME UNCHANGED ticket
  PROVE  PendingMap' = PendingMap /\ RunningMap' = RunningMap
BY DEF PendingMap, RunningMap, Pending, Running

-----------------------------------------------------------------------------
LEMMA RefinesAdmit ==
  ASSUME IInv, NEW o \in Owners, Admit(o)
  PROVE  Promise!Next
<1> DEFINE s == state[o]  n == s.next_ticket  t == Admitted(s)
<1>1. /\ s \in State /\ StateValid(o, s) /\ s.phase = "OPEN" /\ HasTicket(s)
      /\ state' = [state EXCEPT ![o] = t] /\ t \in State
      /\ ticket' = [ticket EXCEPT ![o][n] = "ADMITTED"]
  BY IdentityFacts, AdmittedValid DEF Admit
<1>2. n \in Numbers
  BY <1>1 DEF StateValid, OwnershipValid, HasTicket, State, Numbers
<1>3. /\ t.phase = s.phase /\ t.close_state = s.close_state
      /\ t.parent_pin_held = s.parent_pin_held /\ t.identity = s.identity
      /\ t.parent_identity = s.parent_identity
  BY <1>1 DEF Admitted, State
<1> HIDE DEF t
<1>4. PhaseMap' = PhaseMap /\ ClosingSet' = ClosingSet /\ ChildrenMap' = ChildrenMap
  BY <1>1, <1>3, LinksMapped
<1>5. \A m \in Numbers : ticket[o][m] # "NONE" => m < n
  BY DEF IInv, TicketsInOrder, Matches
<1>6. n \notin Running(o)
  BY <1>2, <1>5 DEF Running, Numbers
<1>7. /\ PendingMap' = [PendingMap EXCEPT ![o] = Pending(o) \cup {n}]
      /\ RunningMap' = [RunningMap EXCEPT ![o] = Running(o) \ {n}]
  BY <1>1, <1>2, TicketMapped DEF TicketPhase
<1>8. RunningMap' = RunningMap
  BY <1>6, <1>7 DEF RunningMap
<1>9. /\ PhaseMap[o] = "OPEN" /\ \A m \in PendingMap[o] : m < n
      /\ PendingMap[o] = Pending(o)
  BY <1>1, <1>5 DEF PhaseMap, PendingMap, Pending
<1>10. Promise!Accept(o, n)
  BY <1>4, <1>7, <1>8, <1>9
     DEF Promise!Accept, PhaseMap, ClosingSet, ChildrenMap, RunningMap, PendingMap
<1> QED BY <1>2, <1>10, PromiseNext

LEMMA RefinesBegin ==
  ASSUME IInv, NEW o \in Owners, NEW n \in Numbers, Begin(o, n)
  PROVE  Promise!Next
<1> DEFINE s == state[o]  t == Begun(o, s, n)
<1>1. /\ s \in State /\ StateValid(o, s) /\ Served(o, n)
      /\ state' = [state EXCEPT ![o] = t] /\ t \in State
      /\ ticket[o][n] = "ADMITTED" /\ ticket' = [ticket EXCEPT ![o][n] = "ACTIVE"]
  BY IdentityFacts, BegunValid DEF Begin, Served
<1>2. /\ t.phase = s.phase /\ t.close_state = s.close_state
      /\ t.parent_pin_held = s.parent_pin_held /\ t.identity = s.identity
      /\ t.parent_identity = s.parent_identity
  BY <1>1 DEF Begun, State
<1> HIDE DEF t
<1>3. PhaseMap' = PhaseMap /\ ClosingSet' = ClosingSet /\ ChildrenMap' = ChildrenMap
  BY <1>1, <1>2, LinksMapped
<1>4. /\ PendingMap' = [PendingMap EXCEPT ![o] = Pending(o) \cup {n}]
      /\ RunningMap' = [RunningMap EXCEPT ![o] = Running(o) \cup {n}]
  BY <1>1, TicketMapped DEF TicketPhase
<1>5. n \in Pending(o) /\ n \notin Running(o)
  BY <1>1 DEF Pending, Running
<1>6. PendingMap' = PendingMap
  BY <1>4, <1>5 DEF PendingMap
<1>7. o \in ExecutionContexts => Running(o) = {} /\ \A m \in Pending(o) : n <= m
  <2> SUFFICES ASSUME Fifo(o) PROVE Running(o) = {} /\ \A m \in Pending(o) : n <= m
    BY DEF Fifo
  <2>1. s.serving_ticket = n /\ s.active_ticket = 0 BY <1>1 DEF Served
  <2>2. Running(o) = {} BY <2>1 DEF IInv, TicketsInOrder, Running, Numbers
  <2>3. \A m \in Pending(o) : ticket[o][m] = "ADMITTED" /\ m \in Numbers
    BY <2>2 DEF Pending, Running
  <2>4. \A m \in Pending(o) : n <= m
    BY <2>1, <2>3 DEF IInv, TicketsInOrder, Numbers
  <2> QED BY <2>2, <2>4
<1>8. Promise!Turn(o, n)
  BY <1>7 DEF Promise!Turn
<1>9. RunningMap[o] = Running(o) /\ PendingMap[o] = Pending(o)
  BY DEF RunningMap, PendingMap
<1>10. Promise!Run(o, n)
  BY <1>3, <1>4, <1>5, <1>6, <1>8, <1>9
     DEF Promise!Run, PhaseMap, ClosingSet, ChildrenMap, RunningMap, PendingMap
<1> QED BY <1>10, PromiseNext

LEMMA RefinesComplete ==
  ASSUME IInv, NEW o \in Owners, NEW n \in Numbers, Complete(o, n)
  PROVE  Promise!Next
<1> DEFINE s == state[o]  t == Completed(o, s)
<1>1. /\ s \in State /\ state' = [state EXCEPT ![o] = t] /\ t \in State
      /\ ticket[o][n] = "ACTIVE" /\ ticket' = [ticket EXCEPT ![o][n] = "COMPLETED"]
  BY IdentityFacts, CompletedValid DEF Complete, Matches
<1>2. /\ t.phase = s.phase /\ t.close_state = s.close_state
      /\ t.parent_pin_held = s.parent_pin_held /\ t.identity = s.identity
      /\ t.parent_identity = s.parent_identity
  BY <1>1 DEF Completed, State
<1> HIDE DEF t
<1>3. PhaseMap' = PhaseMap /\ ClosingSet' = ClosingSet /\ ChildrenMap' = ChildrenMap
  BY <1>1, <1>2, LinksMapped
<1>4. /\ PendingMap' = [PendingMap EXCEPT ![o] = Pending(o) \ {n}]
      /\ RunningMap' = [RunningMap EXCEPT ![o] = Running(o) \ {n}]
  BY <1>1, TicketMapped DEF TicketPhase
<1>5. n \in Running(o) /\ RunningMap[o] = Running(o) /\ PendingMap[o] = Pending(o)
  BY <1>1 DEF Running, RunningMap, PendingMap
<1>6. Promise!Finish(o, n)
  BY <1>3, <1>4, <1>5
     DEF Promise!Finish, PhaseMap, ClosingSet, ChildrenMap, RunningMap, PendingMap
<1> QED BY <1>6, PromiseNext

LEMMA RefinesCloseRequest ==
  ASSUME IInv, NEW o \in Owners, CloseRequest(o)
  PROVE  Promise!Next
<1> DEFINE s == state[o]  t == CloseRequested(s)
<1>1. /\ s \in State /\ StateValid(o, s) /\ s.phase = "OPEN"
      /\ state' = [state EXCEPT ![o] = t] /\ t \in State /\ UNCHANGED ticket
  BY IdentityFacts, CloseRequestedValid DEF CloseRequest
<1>2. /\ t.phase = "CLOSING" /\ t.close_state = "ADMITTED" /\ s.close_state = "NONE"
      /\ t.parent_pin_held = s.parent_pin_held /\ t.identity = s.identity
      /\ t.parent_identity = s.parent_identity
  BY <1>1 DEF CloseRequested, State, StateValid, PhaseValid
<1> HIDE DEF t
<1>3. /\ PhaseMap' = [PhaseMap EXCEPT ![o] = "CLOSING"] /\ ClosingSet' = ClosingSet
      /\ ChildrenMap' = ChildrenMap
      /\ PendingMap' = PendingMap /\ RunningMap' = RunningMap
  <2>1. PendingMap' = PendingMap /\ RunningMap' = RunningMap
    BY <1>1, TicketsUnmoved
  <2> QED
    BY <1>1, <1>2, <2>1, LinksMapped
<1>4. PhaseMap[o] = "OPEN" BY <1>1 DEF PhaseMap
<1>5. Promise!RequestClose(o)
  BY <1>3, <1>4
     DEF Promise!RequestClose, PhaseMap, ClosingSet, ChildrenMap, RunningMap, PendingMap
<1> QED BY <1>5, PromiseNext

LEMMA RefinesCloseBegin ==
  ASSUME IInv, NEW o \in Owners, CloseBegin(o)
  PROVE  Promise!Next
<1> DEFINE s == state[o]  t == CloseBegun(o, s)
<1>1. /\ s \in State /\ Ready(s)
      /\ state' = [state EXCEPT ![o] = t] /\ t \in State /\ UNCHANGED ticket
  BY IdentityFacts, CloseBegunValid DEF CloseBegin
<1>2. /\ t.phase = s.phase /\ t.close_state = "ACTIVE"
      /\ t.parent_pin_held = s.parent_pin_held /\ t.identity = s.identity
      /\ t.parent_identity = s.parent_identity
  BY <1>1 DEF CloseBegun, State
<1> HIDE DEF t
<1>3. /\ PhaseMap' = PhaseMap /\ ClosingSet' = ClosingSet \cup {o}
      /\ ChildrenMap' = ChildrenMap
      /\ PendingMap' = PendingMap /\ RunningMap' = RunningMap
  BY <1>1, <1>2, LinksMapped, TicketsUnmoved
<1>4. Pending(o) = {} /\ Children(o) = {}
  BY <1>1, DrainedIsEmpty DEF Ready
<1>5. PhaseMap[o] = "CLOSING" /\ o \notin ClosingSet
  BY <1>1 DEF Ready, PhaseMap, ClosingSet
<1>6. PendingMap[o] = {} /\ ChildrenMap[o] = {}
  BY <1>4 DEF PendingMap, ChildrenMap
<1>7. Promise!StartClose(o)
  BY <1>3, <1>5, <1>6
     DEF Promise!StartClose, PhaseMap, ClosingSet, ChildrenMap, RunningMap, PendingMap
<1> QED BY <1>7, PromiseNext

LEMMA RefinesCloseComplete ==
  ASSUME IInv, NEW o \in Owners, NEW r \in {"SUCCEEDED", "FAILED"}, CloseComplete(o, r)
  PROVE  Promise!Next
<1> DEFINE s == state[o]  t == CloseCompleted(o, s, r)
<1>1. /\ s \in State /\ s.close_state = "ACTIVE"
      /\ state' = [state EXCEPT ![o] = t] /\ t \in State /\ UNCHANGED ticket
  BY IdentityFacts, CloseCompletedValid DEF CloseComplete
<1>2. /\ t.phase = "CLOSED" /\ t.close_state = "COMPLETED"
      /\ t.parent_pin_held = s.parent_pin_held /\ t.identity = s.identity
      /\ t.parent_identity = s.parent_identity
  BY <1>1 DEF CloseCompleted, State
<1> HIDE DEF t
<1>3. /\ PhaseMap' = [PhaseMap EXCEPT ![o] = "CLOSED"] /\ ClosingSet' = ClosingSet \ {o}
      /\ ChildrenMap' = ChildrenMap
      /\ PendingMap' = PendingMap /\ RunningMap' = RunningMap
  <2>1. PendingMap' = PendingMap /\ RunningMap' = RunningMap
    BY <1>1, TicketsUnmoved
  <2> QED
    BY <1>1, <1>2, <2>1, LinksMapped
<1>4. o \in ClosingSet BY <1>1 DEF ClosingSet
<1>5. Promise!EndClose(o)
  BY <1>3, <1>4
     DEF Promise!EndClose, PhaseMap, ClosingSet, ChildrenMap, RunningMap, PendingMap
<1> QED BY <1>5, PromiseNext

LEMMA RefinesInitRoot ==
  ASSUME IInv, NEW o \in Owners, InitRoot(o)
  PROVE  Promise!Next
<1> DEFINE t == NewState(o, domain.next, 0)
<1>1. /\ o \in Runtimes /\ state[o] = Empty /\ state' = [state EXCEPT ![o] = t]
      /\ UNCHANGED ticket
  BY DEF InitRoot
<1>2. t.phase = "OPEN" /\ t.close_state = "NONE"
  BY DEF NewState
<1> HIDE DEF t
<1>3. \A q \in Owners : state'[q] = IF q = o THEN t ELSE state[q]
  BY <1>1 DEF IInv, TypedAndValid, TypeOK
<1>4. state[o].phase = "NONE" /\ state[o].close_state = "NONE"
  BY <1>1 DEF Empty
<1>5. PhaseMap' = [PhaseMap EXCEPT ![o] = "OPEN"]
  <2>1. \A q \in Owners : state'[q].phase = IF q = o THEN "OPEN" ELSE state[q].phase
    BY <1>2, <1>3
  <2> QED BY <2>1 DEF PhaseMap
<1>6. ClosingSet' = ClosingSet
  <2>1. \A q \in Owners : state'[q].close_state = IF q = o THEN "NONE"
                                                         ELSE state[q].close_state
    BY <1>2, <1>3
  <2> QED BY <1>4, <2>1 DEF ClosingSet
<1>7. /\ PendingMap' = PendingMap /\ RunningMap' = RunningMap
      /\ ChildrenMap' = ChildrenMap
  BY <1>1, TicketsUnmoved, StepInitRoot DEF ChildrenMap
<1>8. PhaseMap[o] = "NONE" BY <1>4 DEF PhaseMap
<1>9. Promise!OpenRoot(o)
  BY <1>1, <1>5, <1>6, <1>7, <1>8
     DEF Promise!OpenRoot, PhaseMap, ClosingSet, ChildrenMap, RunningMap, PendingMap
<1> QED BY <1>9, PromiseNext

LEMMA RefinesInitChild ==
  ASSUME IInv, NEW p \in Owners, NEW c \in Owners, InitChild(p, c)
  PROVE  Promise!Next
<1>1. /\ EdgeValid(p, c) /\ state[p].phase = "OPEN" /\ state[c] = Empty
      /\ UNCHANGED ticket
  BY DEF InitChild
<1>2. state[c].phase = "NONE" /\ state[c].close_state = "NONE"
  BY <1>1 DEF Empty
<1>3. /\ PhaseMap' = [PhaseMap EXCEPT ![c] = "OPEN"]
  BY StepInitChild DEF PhaseMap
<1>4. ClosingSet' = ClosingSet
  BY <1>2, StepInitChild DEF ClosingSet
<1>5. ChildrenMap' = [ChildrenMap EXCEPT ![p] = @ \cup {c}]
  BY StepInitChild DEF ChildrenMap
<1>6. PendingMap' = PendingMap /\ RunningMap' = RunningMap
  BY <1>1, TicketsUnmoved
<1>7. PhaseMap[p] = "OPEN" /\ PhaseMap[c] = "NONE"
  BY <1>1, <1>2 DEF PhaseMap
<1>8. Promise!OpenChild(p, c)
  BY <1>1, <1>3, <1>4, <1>5, <1>6, <1>7
     DEF EdgeValid, Promise!OpenChild, PhaseMap, ClosingSet, ChildrenMap, RunningMap,
         PendingMap
<1> QED BY <1>8, PromiseNext

LEMMA RefinesParentPinRelease ==
  ASSUME IInv, NEW p \in Owners, NEW c \in Owners, ParentPinRelease(p, c)
  PROVE  Promise!Next
<1>1. /\ state[c].phase = "CLOSED" /\ state[p].phase # "CLOSED" /\ UNCHANGED ticket
  BY DEF ParentPinRelease, MayUnpin
<1>2. PhaseMap' = PhaseMap
  BY StepParentPinRelease DEF PhaseMap
<1>3. ClosingSet' = ClosingSet
  BY StepParentPinRelease DEF ClosingSet
<1>4. ChildrenMap' = [ChildrenMap EXCEPT ![p] = @ \ {c}]
  BY StepParentPinRelease DEF ChildrenMap
<1>5. PendingMap' = PendingMap /\ RunningMap' = RunningMap
  BY <1>1, TicketsUnmoved
<1>6. PhaseMap[c] = "CLOSED" /\ PhaseMap[p] # "CLOSED" /\ c \in ChildrenMap[p]
  BY <1>1, StepParentPinRelease DEF PhaseMap, ChildrenMap
<1>7. Promise!Unpin(p, c)
  BY <1>2, <1>3, <1>4, <1>5, <1>6
     DEF Promise!Unpin, PhaseMap, ClosingSet, ChildrenMap, RunningMap, PendingMap
<1> QED BY <1>7, PromiseNext

-----------------------------------------------------------------------------
(* The lifecycle core keeps the promise of runtime_lifecycle.h:22-26: once *)
(* a close is asked for nothing more is accepted, it starts only when all  *)
(* accepted work and every child is gone, and a context is a strict FIFO.  *)
THEOREM PromiseKept == Spec => KeepsPromise
<1>1. Init => Promise!Init
  <2> SUFFICES ASSUME Init PROVE Promise!Init
    OBVIOUS
  <2>1. \A o \in Owners : /\ state[o].phase = "NONE" /\ state[o].close_state = "NONE"
                          /\ ~state[o].parent_pin_held
                          /\ \A n \in Numbers : ticket[o][n] = "NONE"
    BY DEF Init, Empty
  <2>2. \A o \in Owners : Pending(o) = {} /\ Running(o) = {} /\ Children(o) = {}
    BY <2>1 DEF Pending, Running, Children
  <2> QED BY <2>1, <2>2 DEF Promise!Init, Promise!Owners, Owners
<1>2. IInv /\ [Next]_vars => [Promise!Next]_(Promise!vars)
  <2> SUFFICES ASSUME IInv, [Next]_vars
               PROVE  Promise!Next \/ UNCHANGED Promise!vars
    OBVIOUS
  <2>1. CASE Next
    BY <2>1, NextCases, RefinesInitRoot, RefinesInitChild, RefinesAdmit, RefinesBegin,
       RefinesComplete, RefinesCloseRequest, RefinesCloseBegin, RefinesCloseComplete,
       RefinesParentPinRelease
  <2>2. CASE UNCHANGED vars
    BY <2>2 DEF vars, Promise!vars, Pending, Running, Children
  <2> QED BY <2>1, <2>2
<1> QED BY <1>1, <1>2, Invariance, PTL DEF Spec, KeepsPromise, Promise!Spec
=============================================================================
