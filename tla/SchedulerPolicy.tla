--------------------------- MODULE SchedulerPolicy ---------------------------
(***************************************************************************)
(* src/native/src/runtime/scheduler_policy.c: the ordering, deadline,      *)
(* freshness and admission rules that the runtime's request coordinator    *)
(* shares with the browser's.  Pure functions of fixed-width numbers; a    *)
(* request is a record with the fields the functions take.                 *)
(***************************************************************************)
EXTENDS Integers

CONSTANTS AgingQuantum,   \* VX_SCHEDULER_AGING_QUANTUM_MICROS
          PriorityMax,    \* VX_SCHEDULER_POLICY_PRIORITY_MAX
          EffectiveMax    \* INT64_MAX, where the aged priority saturates

ASSUME PolicyConstants ==
  /\ AgingQuantum \in Nat \ {0}
  /\ PriorityMax \in Nat
  /\ EffectiveMax \in Nat /\ PriorityMax < EffectiveMax

Priorities == -PriorityMax .. PriorityMax

(* One point for every quantum spent in the queue; a clock that runs back  *)
(* counts as no age.                                                       *)
AgePoints(submitted, now) ==
  IF now > submitted THEN (now - submitted) \div AgingQuantum ELSE 0

EffectivePriority(priority, submitted, now) ==
  IF AgePoints(submitted, now) > EffectiveMax - PriorityMax
  THEN EffectiveMax
  ELSE priority + AgePoints(submitted, now)

(* A zero deadline is none at all, later than every other. *)
Earlier(d, e) == d # 0 /\ (e = 0 \/ d < e)

(* Request a goes before request b: higher aged priority, then the earlier *)
(* deadline, then the lower identity.                                      *)
Precedes(a, b, now) ==
  LET pa == EffectivePriority(a.priority, a.submitted, now)
      pb == EffectivePriority(b.priority, b.submitted, now)
  IN  \/ pa > pb
      \/ pa = pb /\ Earlier(a.deadline, b.deadline)
      \/ pa = pb /\ a.deadline = b.deadline /\ a.id < b.id

(* now = 0 stands for a clock that could not be read. *)
DeadlineExpired(deadline, now) == deadline # 0 /\ now # 0 /\ now >= deadline

BudgetAdmits(active, maximum, activeBytes, maximumBytes, incoming, reuseSlot) ==
  /\ reuseSlot \/ active < maximum
  /\ activeBytes <= maximumBytes
  /\ incoming <= maximumBytes - activeBytes
=============================================================================
