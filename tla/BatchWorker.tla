---------------------------- MODULE BatchWorker -----------------------------
(***************************************************************************)
(* BatchScheduler with the host's worker loop: ask for the next dispatch,  *)
(* run it, report how it went, for ever.  "beat" flips with every turn of  *)
(* the loop, also one that finds nothing to do, so that the fairness of    *)
(* the loop is stated on it.  Submitters, cancellers and closers keep      *)
(* their freedom: nobody has to cancel, take a result or close.            *)
(***************************************************************************)
EXTENDS BatchScheduler

VARIABLE beat

WorkerInit == Init /\ beat = 0

(* A closed scheduler that is not draining answers VX_BATCH_CLOSED. *)
NothingToDo == sched.pending = <<>> /\ sched.closed /\ ~sched.draining

Turn ==
  /\ NextDispatch \/ CompleteAny \/ (NothingToDo /\ UNCHANGED sched)
  /\ beat' = 1 - beat

WorkerNext == Turn \/ (Callers /\ UNCHANGED beat)

(* The loop keeps turning (it reports each dispatch it is shown, well or *)
(* badly), and time passes.                                              *)
Beat == beat' = 1 - beat
WorkerSpec == /\ WorkerInit /\ [][WorkerNext]_<<sched, beat>>
              /\ WF_beat(Beat) /\ WF_sched(AgeOut)

-----------------------------------------------------------------------------
(* Every accepted request ends: completed, failed or cancelled (comment of *)
(* admit_stateful: "bounded starvation is a contract, not an accident").   *)
AcceptedWorkEnds ==
  \A w \in Works : sched.rec[w].state \in Live ~> sched.rec[w].state \notin Live

(* A queue closed for draining finishes what it admitted and stops. *)
DrainEnds == sched.draining ~> ~sched.draining /\ ~Busy(sched)
=============================================================================
