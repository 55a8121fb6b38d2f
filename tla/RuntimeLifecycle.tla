-------------------------- MODULE RuntimeLifecycle --------------------------
(***************************************************************************)
(* The lifecycle core of src/native/src/runtime/runtime_lifecycle.c: the   *)
(* identity domain, one state record per inference owner, and the tickets  *)
(* a host holds for the operations it was admitted to.  Every call starts  *)
(* by validating the record (StateValid) and leaves everything alone when  *)
(* it returns anything but OK, so an action here is a call that returns OK.*)
(*                                                                         *)
(* Abstracted: transition_id (diagnostic only), magic numbers and the      *)
(* integrity tag, which the one authoritative copy of a ticket that the    *)
(* host must keep always satisfies; a close ticket carries nothing beyond  *)
(* close_ticket and close_state.  A record is never recycled.              *)
(***************************************************************************)
EXTENDS Integers, FiniteSets

CONSTANTS Runtimes, CompiledModels, ExecutionContexts,  \* records, by kind
          MaxIdentity, MaxTicket,  \* UINT64_MAX, named twice to be bounded apart
          Admitters                \* the owners whose host submits operations

Owners == Runtimes \cup CompiledModels \cup ExecutionContexts

ASSUME LifecycleConstants ==
  /\ MaxIdentity \in Nat \ {0} /\ MaxTicket \in Nat \ {0}
  /\ Admitters \subseteq Owners
  /\ IsFiniteSet(Owners)
  /\ Runtimes \cap CompiledModels = {}
  /\ Runtimes \cap ExecutionContexts = {}
  /\ CompiledModels \cap ExecutionContexts = {}

Numbers == 1 .. MaxTicket
Fifo(o) == o \in ExecutionContexts

VARIABLES domain,   \* next_owner_identity, issued_owner_identities, exhausted
          state,    \* the state record of each owner, all zero before its init
          ticket    \* ticket[o][n]: the phase of operation ticket n of owner o

vars == <<domain, state, ticket>>

Domain == [next: 1 .. MaxIdentity, issued: 0 .. MaxIdentity, exhausted: BOOLEAN]
State == [phase: {"NONE", "OPEN", "CLOSING", "CLOSED"},
          close_state: {"NONE", "ADMITTED", "ACTIVE", "COMPLETED"},
          close_result: {"NONE", "SUCCEEDED", "FAILED"},
          ticket_exhausted: BOOLEAN, parent_pin_held: BOOLEAN,
          identity: 0 .. MaxIdentity, parent_identity: 0 .. MaxIdentity,
          next_ticket: 0 .. MaxTicket, serving_ticket: 0 .. MaxTicket,
          active_ticket: 0 .. MaxTicket, close_ticket: 0 .. MaxTicket,
          admitted: 0 .. MaxTicket, active: 0 .. MaxTicket,
          child_count: 0 .. MaxIdentity]
TicketPhase == {"NONE", "ADMITTED", "ACTIVE", "COMPLETED"}

Empty == [phase |-> "NONE", close_state |-> "NONE", close_result |-> "NONE",
          ticket_exhausted |-> FALSE, parent_pin_held |-> FALSE,
          identity |-> 0, parent_identity |-> 0, next_ticket |-> 0,
          serving_ticket |-> 0, active_ticket |-> 0, close_ticket |-> 0,
          admitted |-> 0, active |-> 0, child_count |-> 0]

Init == /\ domain = [next |-> 1, issued |-> 0, exhausted |-> FALSE]
        /\ state = [o \in Owners |-> Empty]
        /\ ticket = [o \in Owners |-> [n \in Numbers |-> "NONE"]]

-----------------------------------------------------------------------------
(* domain_validate_v1 and state_validate_v1. *)
DomainValid(d) ==
  IF d.exhausted THEN d.next = MaxIdentity /\ d.issued = MaxIdentity
                 ELSE d.issued # MaxIdentity /\ d.next = d.issued + 1

OwnershipValid(o, s) ==
  /\ s.identity # 0 /\ s.next_ticket # 0
  /\ s.child_count <= MaxIdentity - s.identity
  /\ o \in ExecutionContexts => s.child_count = 0
  /\ s.active <= s.admitted
  /\ IF o \in Runtimes THEN s.parent_identity = 0 /\ ~s.parent_pin_held
     ELSE /\ s.parent_identity # 0 /\ s.identity > s.parent_identity
          /\ s.phase # "CLOSED" => s.parent_pin_held

PhaseValid(s) ==
  \/ /\ s.phase = "OPEN" /\ s.close_state = "NONE" /\ s.close_result = "NONE"
     /\ s.close_ticket = 0 /\ ~s.ticket_exhausted
  \/ /\ s.phase = "CLOSING" /\ s.close_state \in {"ADMITTED", "ACTIVE"}
     /\ s.close_result = "NONE" /\ s.close_ticket # 0
  \/ /\ s.phase = "CLOSED" /\ s.close_state = "COMPLETED"
     /\ s.close_result # "NONE" /\ s.close_ticket # 0
     /\ s.admitted = 0 /\ s.active = 0 /\ s.child_count = 0
     /\ s.active_ticket = 0

CloseTicketValid(s) ==
  /\ s.ticket_exhausted => /\ s.next_ticket = MaxTicket
                           /\ s.close_ticket = MaxTicket
                           /\ s.phase # "OPEN"
  /\ ~s.ticket_exhausted /\ s.close_ticket # 0 =>
       s.close_ticket # MaxTicket /\ s.next_ticket = s.close_ticket + 1

Drained(s) == s.admitted = 0 /\ s.active = 0 /\ s.child_count = 0

ParallelValid(s) ==
  /\ s.serving_ticket = 0 /\ s.active_ticket = 0
  /\ s.phase = "OPEN" => s.admitted <= s.next_ticket - 1
  /\ s.phase = "CLOSING" => s.admitted <= s.close_ticket - 1
  /\ s.close_state = "ACTIVE" => Drained(s)

FifoValid(s) ==
  /\ s.serving_ticket # 0 /\ s.active <= 1
  /\ \/ s.phase = "OPEN" /\ s.next_ticket - s.serving_ticket = s.admitted
     \/ s.phase = "CLOSING" /\ s.close_ticket - s.serving_ticket = s.admitted
     \/ /\ s.phase = "CLOSED" /\ s.admitted = 0
        /\ s.serving_ticket = IF s.ticket_exhausted THEN MaxTicket
                                                    ELSE s.close_ticket + 1
  /\ IF s.close_state = "ACTIVE" THEN s.active_ticket = s.close_ticket /\ Drained(s)
     ELSE s.active_ticket = IF s.active = 1 THEN s.serving_ticket ELSE 0

StateValid(o, s) ==
  /\ OwnershipValid(o, s) /\ PhaseValid(s) /\ CloseTicketValid(s)
  /\ IF Fifo(o) THEN FifoValid(s) ELSE ParallelValid(s)

-----------------------------------------------------------------------------
(* domain_allocate: the last identity is issued, and then no other. *)
(* Fault: the last identity is issued again and again. *)
AllocatedAgain(d) == IF d.next = MaxIdentity THEN d
                     ELSE [d EXCEPT !.next = d.next + 1, !.issued = d.issued + 1]
Allocated(d) == IF d.next = MaxIdentity
                THEN [d EXCEPT !.exhausted = TRUE, !.issued = MaxIdentity]
                ELSE [d EXCEPT !.next = d.next + 1, !.issued = d.issued + 1]

NewState(o, id, parent) ==
  [phase |-> "OPEN", close_state |-> "NONE", close_result |-> "NONE",
   ticket_exhausted |-> FALSE, parent_pin_held |-> (parent # 0),
   identity |-> id, parent_identity |-> parent, next_ticket |-> 1,
   serving_ticket |-> IF Fifo(o) THEN 1 ELSE 0, active_ticket |-> 0,
   close_ticket |-> 0, admitted |-> 0, active |-> 0, child_count |-> 0]

InitRoot(o) ==
  /\ o \in Runtimes /\ state[o] = Empty
  /\ DomainValid(domain) /\ ~domain.exhausted
  /\ LET root == NewState(o, domain.next, 0)
     IN  /\ StateValid(o, root)
         /\ state' = [state EXCEPT ![o] = root]
  /\ domain' = Allocated(domain)
  /\ DomainValid(domain')
  /\ UNCHANGED ticket

EdgeValid(p, c) == \/ p \in Runtimes /\ c \in CompiledModels
                   \/ p \in CompiledModels /\ c \in ExecutionContexts

(* Fault: the child is not counted. *)
WithChildUncounted(s) == s
WithChild(s) == [s EXCEPT !.child_count = s.child_count + 1]

InitChild(p, c) ==
  /\ DomainValid(domain) /\ StateValid(p, state[p])
  /\ state[p].identity <= domain.issued
  /\ state[c] = Empty /\ EdgeValid(p, c)
  /\ state[p].phase = "OPEN" /\ state[p].child_count # MaxIdentity
  /\ ~domain.exhausted /\ domain.next > state[p].identity
  /\ LET child == NewState(c, domain.next, state[p].identity)
         parent == WithChild(state[p])
     IN  /\ StateValid(p, parent) /\ StateValid(c, child)
         /\ state' = [state EXCEPT ![p] = parent, ![c] = child]
  /\ domain' = Allocated(domain)
  /\ DomainValid(domain')
  /\ UNCHANGED ticket

-----------------------------------------------------------------------------
(* operation_admit_v1: the last ticket number is kept for close. *)
HasTicket(s) == s.next_ticket # MaxTicket /\ s.admitted # MaxTicket

Admitted(s) ==
  [s EXCEPT !.next_ticket = s.next_ticket + 1, !.admitted = s.admitted + 1]

Admit(o) ==
  LET s == state[o] IN
  /\ o \in Admitters
  /\ StateValid(o, s)
  /\ s.phase = "OPEN" /\ HasTicket(s)
  /\ state' = [state EXCEPT ![o] = Admitted(s)]
  /\ ticket' = [ticket EXCEPT ![o][s.next_ticket] = "ADMITTED"]
  /\ UNCHANGED domain

(* ticket_matches for an operation ticket. *)
Matches(s, n) == (s.close_ticket # 0 => n < s.close_ticket) /\ n < s.next_ticket

(* Fault: a context starts whichever ticket is presented while it is idle. *)
ServedAnyTicket(o, n) == Fifo(o) => state[o].active_ticket = 0
Served(o, n) == Fifo(o) => state[o].serving_ticket = n /\ state[o].active_ticket = 0

(* operation_begin_v1 *)
Begun(o, s, n) ==
  [s EXCEPT !.active = s.active + 1,
            !.active_ticket = IF Fifo(o) THEN n ELSE s.active_ticket]

Begin(o, n) ==
  LET s == state[o] IN
  /\ ticket[o][n] = "ADMITTED"
  /\ StateValid(o, s) /\ Matches(s, n)
  /\ s.phase # "CLOSED" /\ s.admitted # 0 /\ s.active < s.admitted
  /\ Served(o, n)
  /\ state' = [state EXCEPT ![o] = Begun(o, s, n)]
  /\ ticket' = [ticket EXCEPT ![o][n] = "ACTIVE"]
  /\ UNCHANGED domain

(* operation_complete_v1 *)
(* Fault: a context does not move on to the next ticket. *)
CompletedStuck(o, s) ==
  [s EXCEPT !.active = @ - 1, !.admitted = @ - 1,
            !.active_ticket = IF Fifo(o) THEN 0 ELSE @]
Completed(o, s) ==
  [s EXCEPT !.active = s.active - 1, !.admitted = s.admitted - 1,
            !.active_ticket = IF Fifo(o) THEN 0 ELSE s.active_ticket,
            !.serving_ticket = s.serving_ticket + (IF Fifo(o) THEN 1 ELSE 0)]

Complete(o, n) ==
  LET s == state[o] IN
  /\ ticket[o][n] = "ACTIVE"
  /\ StateValid(o, s) /\ Matches(s, n)
  /\ s.phase # "CLOSED" /\ s.active # 0 /\ s.admitted # 0
  /\ Fifo(o) => s.active_ticket = n /\ s.serving_ticket = n
  /\ state' = [state EXCEPT ![o] = Completed(o, s)]
  /\ ticket' = [ticket EXCEPT ![o][n] = "COMPLETED"]
  /\ UNCHANGED domain

-----------------------------------------------------------------------------
(* close_request_v1, from OPEN: a later request only reads the ticket. *)
(* Fault: close takes over the number of the last operation. *)
CloseNumberTaken(s) == IF s.next_ticket > 1 THEN s.next_ticket - 1 ELSE 1
CloseNumber(s) == s.next_ticket

CloseRequested(s) ==
  [s EXCEPT !.phase = "CLOSING", !.close_state = "ADMITTED",
            !.close_ticket = CloseNumber(s),
            !.ticket_exhausted = (s.next_ticket = MaxTicket),
            !.next_ticket = IF s.next_ticket = MaxTicket THEN MaxTicket
                                                         ELSE s.next_ticket + 1]

CloseRequest(o) ==
  LET s == state[o] IN
  /\ StateValid(o, s) /\ s.phase = "OPEN"
  /\ state' = [state EXCEPT ![o] = CloseRequested(s)]
  /\ UNCHANGED <<domain, ticket>>

(* close_readiness_v1 *)
Ready(s) == s.phase = "CLOSING" /\ s.close_state = "ADMITTED" /\ Drained(s)

CloseBegun(o, s) ==
  [s EXCEPT !.close_state = "ACTIVE",
            !.active_ticket = IF Fifo(o) THEN s.close_ticket ELSE s.active_ticket]

CloseBegin(o) ==
  LET s == state[o] IN
  /\ StateValid(o, s) /\ Ready(s)
  /\ Fifo(o) => s.serving_ticket = s.close_ticket /\ s.active_ticket = 0
  /\ state' = [state EXCEPT ![o] = CloseBegun(o, s)]
  /\ UNCHANGED <<domain, ticket>>

(* Fault: serving_ticket moves past the last number. *)
ServedCloseOverflow(s) == s.serving_ticket + 1
ServedClose(s) == IF s.close_ticket # MaxTicket THEN s.serving_ticket + 1
                                               ELSE s.serving_ticket

CloseCompleted(o, s, result) ==
  [s EXCEPT !.phase = "CLOSED", !.close_state = "COMPLETED", !.close_result = result,
            !.active_ticket = IF Fifo(o) THEN 0 ELSE s.active_ticket,
            !.serving_ticket = IF Fifo(o) THEN ServedClose(s) ELSE s.serving_ticket]

CloseComplete(o, result) ==
  LET s == state[o] IN
  /\ StateValid(o, s) /\ s.phase # "CLOSED" /\ s.close_state = "ACTIVE"
  /\ Drained(s)
  /\ Fifo(o) => s.serving_ticket = s.close_ticket /\ s.active_ticket = s.close_ticket
  /\ state' = [state EXCEPT ![o] = CloseCompleted(o, s, result)]
  /\ UNCHANGED <<domain, ticket>>

(* parent_pin_release_v1 *)
(* Fault: a child lets go of its parent while it is still closing. *)
MayUnpinEarly(p, c) ==
  /\ state[c].parent_identity = state[p].identity /\ state[c].parent_pin_held
  /\ EdgeValid(p, c) /\ state[c].phase # "OPEN"
  /\ state[p].phase # "CLOSED" /\ state[p].child_count # 0
MayUnpin(p, c) ==
  /\ state[c].parent_identity = state[p].identity /\ state[c].parent_pin_held
  /\ EdgeValid(p, c) /\ state[c].phase = "CLOSED"
  /\ state[p].phase # "CLOSED" /\ state[p].child_count # 0

WithoutChild(s) == [s EXCEPT !.child_count = s.child_count - 1]
Unpinned(s) == [s EXCEPT !.parent_pin_held = FALSE]

ParentPinRelease(p, c) ==
  /\ StateValid(p, state[p]) /\ StateValid(c, state[c])
  /\ MayUnpin(p, c)
  /\ state' = [state EXCEPT ![p] = WithoutChild(state[p]),
                            ![c] = Unpinned(state[c])]
  /\ UNCHANGED <<domain, ticket>>

-----------------------------------------------------------------------------
(* What a host owes once it asked for a close or was given a ticket. *)
HostWork ==
  \E o \in Owners :
    \/ CloseBegin(o)
    \/ \E result \in {"SUCCEEDED", "FAILED"} : CloseComplete(o, result)
    \/ \E n \in Numbers : Begin(o, n) \/ Complete(o, n)
    \/ \E c \in Owners : ParentPinRelease(o, c)

Next ==
  \/ \E o \in Owners : InitRoot(o) \/ Admit(o) \/ CloseRequest(o)
  \/ \E p, c \in Owners : InitChild(p, c)
  \/ HostWork

Spec == Init /\ [][Next]_vars

(* The header obliges the host: it retries what WAITs, completes every     *)
(* successful begin, and releases the pin of a closed child.               *)
HostedSpec == Spec /\ WF_vars(HostWork)
-----------------------------------------------------------------------------
TypeOK == /\ domain \in Domain
          /\ state \in [Owners -> State]
          /\ ticket \in [Owners -> [Numbers -> TicketPhase]]

Live(o) == state[o].identity # 0

(* No sequence of calls leads to a record or a domain that the core's own  *)
(* validation would refuse: INVALID_STATE is never the answer to a legal   *)
(* history (runtime_lifecycle.c:192-304).                                  *)
AlwaysValid == /\ DomainValid(domain)
               /\ \A o \in Owners : state[o] # Empty => StateValid(o, state[o])

(* Identities name one owner each, and the children of an owner always fit *)
(* in the identities behind its own, the bound that init_child checks only *)
(* after it has counted the child.                                         *)
IdentitiesLast ==
  /\ \A o, q \in Owners : Live(o) /\ state[o].identity = state[q].identity => o = q
  /\ \A o \in Owners : state[o].identity + state[o].child_count <= domain.issued

(* A ticket that was accepted stays good whatever the others and a close   *)
(* do: its begin is never STALE, only WAIT, and once it runs its complete  *)
(* is accepted (runtime_lifecycle.c:493-557).                              *)
AcceptedIsHonoured ==
  \A o \in Owners, n \in Numbers :
    LET s == state[o] IN
    /\ ticket[o][n] = "ADMITTED" => /\ s.phase # "CLOSED" /\ Matches(s, n)
                                    /\ s.active < s.admitted
                                    /\ Fifo(o) => n >= s.serving_ticket
    /\ ticket[o][n] = "ACTIVE" => /\ s.phase # "CLOSED" /\ Matches(s, n)
                                  /\ s.active # 0
                                  /\ Fifo(o) => s.active_ticket = n

Pending(o) == {n \in Numbers : ticket[o][n] \in {"ADMITTED", "ACTIVE"}}
Running(o) == {n \in Numbers : ticket[o][n] = "ACTIVE"}
Children(o) == {c \in Owners : /\ state[c].parent_pin_held
                               /\ state[c].parent_identity = state[o].identity}

(* The counters of a record are the sets they stand for, so that "zero"    *)
(* means what close takes it to mean: no ticket is out and nobody pins.    *)
CountsAreExact ==
  \A o \in Owners : /\ state[o].admitted = Cardinality(Pending(o))
                     /\ state[o].active = Cardinality(Running(o))
                     /\ state[o].child_count = Cardinality(Children(o))

(* No owner is closed under a child that still pins it.                    *)
ParentOutlivesChildren ==
  \A o \in Owners : state[o].phase = "CLOSED" => Children(o) = {} /\ Pending(o) = {}

(* The record keeps the promise of the header: an owner's close starts     *)
(* only once every accepted operation has finished and every child let go, *)
(* nothing is accepted after a close was asked for, and a context runs its *)
(* operations one at a time in the order it accepted them.                 *)
Promise == INSTANCE OwnerLifecycle WITH
             phase <- [o \in Owners |-> state[o].phase],
             closing <- {o \in Owners : state[o].close_state = "ACTIVE"},
             pending <- [o \in Owners |-> Pending(o)],
             running <- [o \in Owners |-> Running(o)],
             children <- [o \in Owners |-> Children(o)]
KeepsPromise == Promise!Spec

(* A close that was asked for ends, once it was asked of the owners below  *)
(* too: no ticket, no pin and no exhausted counter can hold it up.         *)
Asked(o) == /\ state[o].phase = "CLOSING"
            /\ \A c \in Children(o) :
                 /\ state[c].phase # "OPEN"
                 /\ \A g \in Children(c) : state[g].phase # "OPEN"
CloseEnds == \A o \in Owners : Asked(o) ~> state[o].phase = "CLOSED"
=============================================================================
