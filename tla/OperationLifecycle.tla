------------------------- MODULE OperationLifecycle -------------------------
(***************************************************************************)
(* What the operations page and the handlers rely on: the life of a        *)
(* persisted operation as its submitter sees it, without replicas, queues, *)
(* leases or retries of statements.  OperationManager implements it.       *)
(***************************************************************************)
EXTENDS Naturals

CONSTANTS
  Ops,            \* the operations
  LateVerdicts    \* TRUE: a worker may outlive the verdict "interrupted"

VARIABLES
  status,    \* what the operations table shows
  effect     \* how often the change was applied to the cluster

vars == <<status, effect>>

Init ==
  /\ status = [o \in Ops |-> "absent"]
  /\ effect = [o \in Ops |-> 0]

\* A step moves one operation; the dispatch loop may fail several at once.
Interrupted(S) ==
  /\ \A o \in S : status[o] = "running"
  /\ status' = [o \in Ops |-> IF o \in S THEN "failed" ELSE status[o]]
  /\ UNCHANGED effect

Purged(S) ==
  /\ \A o \in S : status[o] \in {"succeeded", "failed"}
  /\ status' = [o \in Ops |-> IF o \in S THEN "purged" ELSE status[o]]
  /\ UNCHANGED effect

Move(o, from, to) ==
  /\ status[o] \in from
  /\ status' = [status EXCEPT ![o] = to]
  /\ UNCHANGED effect

Open == {"running"} \cup IF LateVerdicts THEN {"failed"} ELSE {}

Accept(o)  == Move(o, {"absent"}, "queued")
Begin(o)   == Move(o, {"queued"}, "running")
Succeed(o) == effect[o] = 1 /\ Move(o, Open, "succeeded")

\* The change is applied once, between Begin and the end.
TakeEffect(o) ==
  /\ status[o] \in Open
  /\ effect[o] = 0
  /\ effect' = [effect EXCEPT ![o] = 1]
  /\ UNCHANGED status

Next ==
  \/ \E o \in Ops : Accept(o) \/ Begin(o) \/ Succeed(o) \/ TakeEffect(o)
  \/ \E S \in SUBSET Ops : Interrupted(S) \/ Purged(S)

Spec == Init /\ [][Next]_vars
=============================================================================
