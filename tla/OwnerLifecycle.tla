--------------------------- MODULE OwnerLifecycle ---------------------------
(***************************************************************************)
(* What src/native/src/runtime/runtime_lifecycle.h promises of the tree of *)
(* inference owners (Runtime > CompiledModel > ExecutionContext), without  *)
(* counters, tickets or identities: the set of operations each owner has   *)
(* accepted and not finished, those that run, and the set of children that *)
(* still pin it.  "Starting close rejects every later admission but        *)
(* preserves all earlier tickets.  A close reaches its physical-host       *)
(* boundary only after accepted operations and retained children have      *)
(* drained" (runtime_lifecycle.h:23-26).                                   *)
(***************************************************************************)
EXTENDS Naturals

CONSTANTS Runtimes, CompiledModels, ExecutionContexts,
          Numbers    \* what orders the operations an owner accepts

Owners == Runtimes \cup CompiledModels \cup ExecutionContexts

VARIABLES phase,     \* "NONE" before the owner exists, then OPEN, CLOSING, CLOSED
          closing,   \* the owners whose physical close is running
          pending,   \* accepted operations that have not finished
          running,   \* those of them that run
          children   \* the children that pin the owner

vars == <<phase, closing, pending, running, children>>

Init == /\ phase = [o \in Owners |-> "NONE"]
        /\ closing = {}
        /\ pending = [o \in Owners |-> {}]
        /\ running = [o \in Owners |-> {}]
        /\ children = [o \in Owners |-> {}]

(* An ExecutionContext is a FIFO: one operation at a time, oldest first. *)
Turn(o, n) == o \in ExecutionContexts => /\ running[o] = {}
                                         /\ \A m \in pending[o] : n <= m

OpenRoot(o) == /\ o \in Runtimes
               /\ phase[o] = "NONE"
               /\ phase' = [phase EXCEPT ![o] = "OPEN"]
               /\ UNCHANGED <<closing, pending, running, children>>

OpenChild(p, c) ==
  /\ \/ p \in Runtimes /\ c \in CompiledModels
     \/ p \in CompiledModels /\ c \in ExecutionContexts
  /\ phase[p] = "OPEN" /\ phase[c] = "NONE"
  /\ phase' = [phase EXCEPT ![c] = "OPEN"]
  /\ children' = [children EXCEPT ![p] = @ \cup {c}]
  /\ UNCHANGED <<closing, pending, running>>

(* A newly accepted operation comes after every one still pending. *)
Accept(o, n) ==
  /\ phase[o] = "OPEN"
  /\ \A m \in pending[o] : m < n
  /\ pending' = [pending EXCEPT ![o] = @ \cup {n}]
  /\ UNCHANGED <<phase, closing, running, children>>

Run(o, n) ==
  /\ n \in pending[o] \ running[o]
  /\ Turn(o, n)
  /\ running' = [running EXCEPT ![o] = @ \cup {n}]
  /\ UNCHANGED <<phase, closing, pending, children>>

Finish(o, n) ==
  /\ n \in running[o]
  /\ pending' = [pending EXCEPT ![o] = @ \ {n}]
  /\ running' = [running EXCEPT ![o] = @ \ {n}]
  /\ UNCHANGED <<phase, closing, children>>

RequestClose(o) ==
  /\ phase[o] = "OPEN"
  /\ phase' = [phase EXCEPT ![o] = "CLOSING"]
  /\ UNCHANGED <<closing, pending, running, children>>

(* The physical close: nothing accepted is left and nobody pins the owner. *)
StartClose(o) ==
  /\ phase[o] = "CLOSING" /\ o \notin closing
  /\ pending[o] = {} /\ children[o] = {}
  /\ closing' = closing \cup {o}
  /\ UNCHANGED <<phase, pending, running, children>>

EndClose(o) ==
  /\ o \in closing
  /\ phase' = [phase EXCEPT ![o] = "CLOSED"]
  /\ closing' = closing \ {o}
  /\ UNCHANGED <<pending, running, children>>

(* A child lets go of its parent once it is closed, while the parent is not. *)
Unpin(p, c) ==
  /\ c \in children[p]
  /\ phase[c] = "CLOSED" /\ phase[p] # "CLOSED"
  /\ children' = [children EXCEPT ![p] = @ \ {c}]
  /\ UNCHANGED <<phase, closing, pending, running>>

Next ==
  \E o \in Owners :
    \/ OpenRoot(o) \/ RequestClose(o) \/ StartClose(o) \/ EndClose(o)
    \/ \E c \in Owners : OpenChild(o, c) \/ Unpin(o, c)
    \/ \E n \in Numbers : Accept(o, n) \/ Run(o, n) \/ Finish(o, n)

Spec == Init /\ [][Next]_vars
=============================================================================
