------------------------- MODULE ContextReservation -------------------------
(***************************************************************************)
(* How a scheduled request holds an execution context from submission to   *)
(* settlement (src/native/src/runtime/public_api_execution_driver.inc).    *)
(* The context is one record and each function an operator on it:          *)
(*   state    execution_state                                              *)
(*   call     execution_call_id, named by the request that made the call   *)
(*   token    execution_scheduler_token: the request that holds it         *)
(*   cancel   execution_cancel_requested, which is never taken back        *)
(* Each function runs under the context's queue_mutex.  Abstracted: the    *)
(* prepared cache, debug sessions, closing, step limits (COMPLETED) and the *)
(* budget deadline.                                                        *)
(***************************************************************************)
CONSTANTS NoRequest   \* no token, no call

ContextStates == {"READY", "QUEUED", "RUNNING", "CANCELLED", "FAILED"}

FreshContext == [state |-> "READY", call |-> NoRequest, token |-> NoRequest, cancel |-> FALSE]

(* reserve_graph and reserve_generation: claim, prepare, publish. *)
ReserveOK(x) == x.state = "READY" /\ x.token = NoRequest
Reserve(x, r) == [x EXCEPT !.state = "QUEUED", !.call = r, !.token = r]

(* Fault: a reservation whose context was cancelled is not given back. *)
UnreserveOKQueued(x, r) == x.call = r /\ x.state = "QUEUED"

(* Gives an unused reservation back; a cancelled context stays cancelled.  *)
UnreserveOK(x, r) == x.call = r /\ x.state \in {"QUEUED", "CANCELLED"}
Unreserve(x, r) ==
  IF UnreserveOK(x, r)
  THEN [x EXCEPT !.state = IF x.cancel THEN "CANCELLED" ELSE "READY",
                 !.token = NoRequest]
  ELSE x

(* run_reserved and batch_begin claim the context for the request's run.   *)
ClaimOK(x, r) == x.call = r /\ x.state = "QUEUED"
Claim(x) == [x EXCEPT !.state = "RUNNING"]

(* The run is over: "OK", "REFUSED" before it committed, "FAIL" after.     *)
Settle(x, outcome) ==
  [x EXCEPT !.state = CASE x.cancel /\ outcome # "FAIL" -> "CANCELLED"
                        [] outcome = "FAIL" -> "FAILED"
                        [] OTHER -> "READY"]

(* finish_reserved: the request is terminal and lets go of the context.    *)
FinishReservedOK(x, r) == x.token = r /\ x.state \notin {"RUNNING", "QUEUED"}
FinishReserved(x, r) == [x EXCEPT !.token = NoRequest]

(* cancel_reserved: the request is cancelled, and its context with it.     *)
CancelReserved(x, r) ==
  IF x.token # r THEN x
  ELSE [x EXCEPT !.cancel = TRUE,
                 !.state = IF @ = "RUNNING" THEN @ ELSE "CANCELLED"]

(* CancelExecutionContext cancels the whole job, queued or running. *)
CancelExecutionOK(x) == x.state \in {"READY", "QUEUED", "RUNNING"}
CancelExecution(x) ==
  [x EXCEPT !.cancel = TRUE, !.state = IF @ = "RUNNING" THEN @ ELSE "CANCELLED"]
=============================================================================
