-------------------------- MODULE OperationManager --------------------------
(***************************************************************************)
(* The background operation manager, src/internal/operation/manager.go.    *)
(* Every replica of the server runs one Manager: two worker goroutines, a  *)
(* bounded in-memory queue and a dispatch loop.  The replicas share the    *)
(* operations table.  An action below is one database statement together   *)
(* with the local computation around it, so the actions interleave where   *)
(* the goroutines and the replicas do.                                     *)
(***************************************************************************)
EXTENDS Integers, Sequences, FiniteSets

CONSTANTS
  Managers,       \* the replicas of the server
  NoManager,      \* worker_id = ""
  Workers,        \* worker goroutines of one manager (two in Start)
  MaxOps,         \* bound: operations ever created
  QueueSize,      \* capacity of Manager.queue
  Registered,     \* kinds each replica has an executor for
  Timely,         \* TRUE: a live worker never lets its heartbeat expire
  MaxFaults,      \* bound: database statements that fail
  MaxDepartures   \* bound: crashes and graceful stops

Kinds == {"helm_release", "ai_change"}

ASSUME ConstantsAssumption ==
  /\ NoManager \notin Managers
  /\ MaxOps \in Nat
  /\ QueueSize \in Nat \ {0}
  /\ Registered \in [Managers -> SUBSET Kinds]
  /\ Timely \in BOOLEAN
  /\ MaxFaults \in Nat
  /\ MaxDepartures \in Nat

VARIABLES
  row,          \* the operations table, by id; ids are given in creation order
  created,      \* operations 1..created exist (or have existed)
  queue,        \* Manager.queue of each replica
  job,          \* what each worker goroutine is doing
  phase,        \* life cycle of each replica's manager
  ownerActive,  \* User.IsActive of the operations' owner
  applied,      \* how often an operation's change reached the cluster (history)
  barred,       \* operations queued since the owner is inactive (history)
  faults,       \* failed database statements so far
  departures    \* crashes and stops so far

vars == <<row, created, queue, job, phase, ownerActive, applied, barred, faults, departures>>

-----------------------------------------------------------------------------
Ops    == 1..MaxOps
NoOp   == 0
Status == {"absent", "queued", "running", "succeeded", "failed", "purged"}

\* Failure codes; "none" is the empty error_code and also a nil *Failure.
Codes == {"none", "OPERATION_LOAD_FAILED", "USER_NOT_ACTIVE", "EXECUTOR_UNAVAILABLE",
          "PAYLOAD_DECRYPT_FAILED", "RELEASE_CONFLICT", "OPERATION_FAILED", "OPERATION_INTERRUPTED"}

\* The failures whose Failure literal sets Retryable.
RetryableCodes == {"OPERATION_LOAD_FAILED", "EXECUTOR_UNAVAILABLE", "RELEASE_CONFLICT"}

\* stage stands for stage and progress, completed for the age of completed_at,
\* stale for heartbeat_at IS NULL or older than staleWorkerAfter.
Row == [status: Status, kind: Kinds, parent: Ops \cup {NoOp}, code: Codes,
        stage: {"queued", "preparing", "applying", "verifying", "final"},
        worker: Managers \cup {NoManager}, stale: BOOLEAN,
        completed: {"never", "recent", "old"}]

AbsentRow == [status |-> "absent", kind |-> "helm_release", parent |-> NoOp, code |-> "none",
              stage |-> "queued", worker |-> NoManager, stale |-> TRUE, completed |-> "never"]

Job  == [pc: {"idle", "claimed", "loaded", "executing", "applying", "verifying", "returned", "failing"},
         op: Ops \cup {NoOp}, code: Codes]
Idle == [pc |-> "idle", op |-> NoOp, code |-> "none"]

IsRetryable(r) == r.status = "failed" /\ r.code \in RetryableCodes

QueuedIgnored == {}  \* mutant: dispatch never looks at the table again
Queued == {o \in Ops : row[o].status = "queued"}

\* Worker w of m is between the claim of o and the last write about it.
Holds(m, w, o) == job[m][w].pc # "idle" /\ job[m][w].op = o
Held(o)        == \E m \in Managers, w \in Workers : Holds(m, w, o)

DbOk    == UNCHANGED faults
DbFault == faults < MaxFaults /\ faults' = faults + 1

Init ==
  /\ row = [o \in Ops |-> AbsentRow]
  /\ created = 0
  /\ queue = [m \in Managers |-> <<>>]
  /\ job = [m \in Managers |-> [w \in Workers |-> Idle]]
  /\ phase = [m \in Managers |-> "down"]
  /\ ownerActive = TRUE
  /\ applied = [o \in Ops |-> 0]
  /\ barred = {}
  /\ faults = 0
  /\ departures = 0

-----------------------------------------------------------------------------
(* Requests.  enqueue never blocks: an id that finds the manager stopped or *)
(* the queue full is dropped, and the row waits for the dispatch loop.     *)

Enqueue(m, o) ==
  queue' = IF phase[m] = "up" /\ Len(queue[m]) < QueueSize
             THEN [queue EXCEPT ![m] = Append(@, o)]
             ELSE queue

NewRow(kind, parent) ==
  [AbsentRow EXCEPT !.status = "queued", !.kind = kind, !.parent = parent]

\* mutant: CompletedAt is copied with the rest
RetryRowKeepsCompleted(o) ==
  [row[o] EXCEPT !.status = "queued", !.parent = o, !.code = "none", !.stage = "queued",
                 !.worker = NoManager, !.stale = TRUE]

\* Retry copies the previous row and resets what the previous run left in it.
RetryRow(o) ==
  [row[o] EXCEPT !.status = "queued", !.parent = o, !.code = "none", !.stage = "queued",
                 !.worker = NoManager, !.stale = TRUE, !.completed = "never"]

Create(m, r) ==
  /\ phase[m] # "down"
  /\ created < MaxOps
  /\ created' = created + 1
  /\ row' = [row EXCEPT ![created + 1] = r]
  /\ Enqueue(m, created + 1)
  /\ barred' = IF ownerActive THEN barred ELSE barred \cup {created + 1}
  /\ UNCHANGED <<job, phase, ownerActive, applied, faults, departures>>

Submit(m, kind) == ownerActive /\ Create(m, NewRow(kind, NoOp))

\* The owner retries, or an administrator in the owner's name.
Retry(m, o) == IsRetryable(row[o]) /\ Create(m, RetryRow(o))

-----------------------------------------------------------------------------
(* A worker's execute(id), one action per database statement.              *)

SetJob(m, w, pc, o, code) ==
  job' = [job EXCEPT ![m][w] = [pc |-> pc, op |-> o, code |-> code]]

Step(m, w, from, to) ==
  /\ job[m][w].pc = from
  /\ job' = [job EXCEPT ![m][w].pc = to]

\* Give up on the operation in hand: the failure is written by WriteFailure.
GiveUp(m, w, code) == SetJob(m, w, "failing", job[m][w].op, code)

ClaimedRow(m, r) ==
  [r EXCEPT !.status = "running", !.stage = "preparing", !.worker = m, !.stale = FALSE]

CanClaimAny(r) == r.status \in {"queued", "running", "failed"}  \* mutant: claim by id alone
CanClaim(r) == r.status = "queued"

\* UPDATE ... WHERE id AND status = 'queued': the affected row is the lease.
\* A statement reported as failed may have been committed.
Claim(m, w) ==
  /\ phase[m] = "up"
  /\ job[m][w].pc = "idle"
  /\ queue[m] # <<>>
  /\ queue' = [queue EXCEPT ![m] = Tail(@)]
  /\ LET o       == Head(queue[m])
         Claimed == row' = [row EXCEPT ![o] = ClaimedRow(m, @)]
     IN \/ CanClaim(row[o]) /\ Claimed /\ SetJob(m, w, "claimed", o, "none") /\ DbOk
        \/ CanClaim(row[o]) /\ Claimed /\ UNCHANGED job /\ DbFault
        \/ ~CanClaim(row[o]) /\ UNCHANGED <<row, job>> /\ DbOk
  /\ UNCHANGED <<created, phase, ownerActive, applied, barred, departures>>

\* loadClaimedOperation: the reads fail when the context is cancelled.
Load(m, w) ==
  /\ \/ phase[m] = "up" /\ Step(m, w, "claimed", "loaded") /\ DbOk
     \/ /\ job[m][w].pc = "claimed"
        /\ (phase[m] = "stopping" /\ DbOk) \/ DbFault
        /\ GiveUp(m, w, "OPERATION_LOAD_FAILED")
  /\ UNCHANGED <<row, created, queue, phase, ownerActive, applied, barred, departures>>

OwnerPasses(m) == phase[m] = "up" /\ ownerActive

\* The owner is read again, then the executor is looked up and the payload
\* decrypted; an error reading the owner counts as an inactive owner.
Authorize(m, w) ==
  LET kind == row[job[m][w].op].kind IN
  /\ job[m][w].pc = "loaded"
  /\ \/ (~ownerActive \/ phase[m] = "stopping") /\ GiveUp(m, w, "USER_NOT_ACTIVE") /\ DbOk
     \/ GiveUp(m, w, "USER_NOT_ACTIVE") /\ DbFault
     \/ /\ OwnerPasses(m) /\ DbOk
        /\ \/ kind \notin Registered[m] /\ GiveUp(m, w, "EXECUTOR_UNAVAILABLE")
           \/ kind \in Registered[m] /\ GiveUp(m, w, "PAYLOAD_DECRYPT_FAILED")
           \/ kind \in Registered[m] /\ Step(m, w, "loaded", "executing")
  /\ UNCHANGED <<row, created, queue, phase, ownerActive, applied, barred, departures>>

\* The reporter updates the row by id alone; it ignores errors.
ReportStage(m, o, stage) ==
  \/ phase[m] = "up" /\ row' = [row EXCEPT ![o].stage = stage] /\ DbOk
  \/ phase[m] = "stopping" /\ UNCHANGED row /\ DbOk
  \/ UNCHANGED row /\ DbFault

ReportApplying(m, w) ==
  /\ Step(m, w, "executing", "applying")
  /\ ReportStage(m, job[m][w].op, "applying")
  /\ UNCHANGED <<created, queue, phase, ownerActive, applied, barred, departures>>

\* mutant: a conflict found half way through the release
OutcomesLateConflict(kind) ==
  {[code |-> "none", changes |-> 1], [code |-> "RELEASE_CONFLICT", changes |-> 1]}

\* mutant: an executor that swallows its error
OutcomesSwallowed(kind) ==
  {[code |-> "none", changes |-> 0], [code |-> "OPERATION_FAILED", changes |-> 1]}

\* What an executor may return, and how often it changed the cluster by then.
\* Only the package executor reports a conflict, before it changes anything.
Outcomes(kind) ==
  {[code |-> "none", changes |-> 1],
   [code |-> "OPERATION_FAILED", changes |-> 1],
   [code |-> "OPERATION_FAILED", changes |-> 0]}
  \cup IF kind = "helm_release" THEN {[code |-> "RELEASE_CONFLICT", changes |-> 0]} ELSE {}

Apply(m, w) ==
  LET o == job[m][w].op IN
  /\ job[m][w].pc = "applying"
  /\ \E out \in Outcomes(row[o].kind) :
       /\ applied' = [applied EXCEPT ![o] = @ + out.changes]
       /\ SetJob(m, w, IF out.code = "none" THEN "verifying" ELSE "returned", o, out.code)
  /\ UNCHANGED <<row, created, queue, phase, ownerActive, barred, faults, departures>>

ReportVerifying(m, w) ==
  /\ Step(m, w, "verifying", "returned")
  /\ ReportStage(m, job[m][w].op, "verifying")
  /\ UNCHANGED <<created, queue, phase, ownerActive, applied, barred, departures>>

\* mutant: the lease is not cleared
SucceededRowKeepsLease(r) ==
  [r EXCEPT !.status = "succeeded", !.stage = "final", !.completed = "recent"]

\* The success update does not touch error_code.
SucceededRow(r) ==
  [r EXCEPT !.status = "succeeded", !.stage = "final", !.worker = NoManager,
            !.stale = TRUE, !.completed = "recent"]

FailedRow(r, code) ==
  [r EXCEPT !.status = "failed", !.code = code, !.stage = "final", !.worker = NoManager,
            !.stale = TRUE, !.completed = "recent"]

\* The executor returned: a cancelled context abandons the row as it is.
Finish(m, w) ==
  LET o == job[m][w].op IN
  /\ job[m][w].pc = "returned"
  /\ \/ phase[m] = "stopping" /\ UNCHANGED row /\ DbOk /\ SetJob(m, w, "idle", NoOp, "none")
     \/ /\ phase[m] = "up" /\ job[m][w].code # "none"
        /\ UNCHANGED row /\ DbOk /\ GiveUp(m, w, job[m][w].code)
     \/ /\ phase[m] = "up" /\ job[m][w].code = "none"
        /\ \/ row' = [row EXCEPT ![o] = SucceededRow(@)] /\ DbOk
           \/ UNCHANGED row /\ DbFault
        /\ SetJob(m, w, "idle", NoOp, "none")
  /\ UNCHANGED <<created, queue, phase, ownerActive, applied, barred, departures>>

\* fail writes with a context of its own, also while the manager stops.
WriteFailure(m, w) ==
  LET o == job[m][w].op IN
  /\ job[m][w].pc = "failing"
  /\ \/ row' = [row EXCEPT ![o] = FailedRow(@, job[m][w].code)] /\ DbOk
     \/ UNCHANGED row /\ DbFault
  /\ SetJob(m, w, "idle", NoOp, "none")
  /\ UNCHANGED <<created, queue, phase, ownerActive, applied, barred, departures>>

\* The heartbeat goroutine runs as long as the executor does.
Heartbeat(m, w) ==
  LET o == job[m][w].op IN
  /\ phase[m] = "up"
  /\ job[m][w].pc \in {"executing", "applying", "verifying"}
  /\ row[o].status = "running" /\ row[o].worker = m
  /\ row[o].stale
  /\ row' = [row EXCEPT ![o].stale = FALSE]
  /\ UNCHANGED <<created, queue, job, phase, ownerActive, applied, barred, faults, departures>>

-----------------------------------------------------------------------------
(* Recovery, dispatch and retention.                                       *)

\* mutant: give stale operations back to the queue
RecoverByRequeue(table) ==
  [o \in Ops |-> IF table[o].status = "running" /\ table[o].stale
                   THEN [table[o] EXCEPT !.status = "queued", !.worker = NoManager]
                   ELSE table[o]]

\* mutant: every running operation is taken for an orphan
RecoverAllRunning(table) ==
  [o \in Ops |-> IF table[o].status = "running"
                   THEN FailedRow(table[o], "OPERATION_INTERRUPTED") ELSE table[o]]

\* mutant: the heartbeat alone decides
RecoverAnyStatus(table) ==
  [o \in Ops |-> IF table[o].status \in {"running", "succeeded"} /\ table[o].stale
                   THEN FailedRow(table[o], "OPERATION_INTERRUPTED") ELSE table[o]]

RecoverStale(table) ==
  [o \in Ops |-> IF table[o].status = "running" /\ table[o].stale
                   THEN FailedRow(table[o], "OPERATION_INTERRUPTED")
                   ELSE table[o]]

\* The ids of S in creation order.
InOrder(S) ==
  {s \in [1..Cardinality(S) -> S] : \A i, j \in 1..Cardinality(S) : i < j => s[i] < s[j]}

ClipNone(s) == s  \* mutant: an unbounded queue
Clip(s) == SubSeq(s, 1, IF Len(s) < QueueSize THEN Len(s) ELSE QueueSize)

\* One turn of dispatchQueued: recoverStale, then loadQueued, which offers
\* every queued id again, also those already waiting in the queue.
Dispatch(m) ==
  /\ phase[m] = "up"
  /\ row' = RecoverStale(row)
  /\ \E ids \in InOrder(Queued) : queue' = [queue EXCEPT ![m] = Clip(@ \o ids)]
  /\ UNCHANGED <<created, job, phase, ownerActive, applied, barred, faults, departures>>

Start(m) ==
  /\ phase[m] = "down"
  /\ phase' = [phase EXCEPT ![m] = "up"]
  /\ row' = RecoverStale(row)
  /\ UNCHANGED <<created, queue, job, ownerActive, applied, barred, faults, departures>>

IsExpired(r) == r.completed = "old"

CleanupCompleted(m) ==
  /\ phase[m] = "up"
  /\ \E o \in Ops : IsExpired(row[o])
  /\ row' = [o \in Ops |-> IF IsExpired(row[o])
                             THEN [AbsentRow EXCEPT !.status = "purged"] ELSE row[o]]
  /\ UNCHANGED <<created, queue, job, phase, ownerActive, applied, barred, faults, departures>>

\* Cancel the context; Stop returns once the workers have (Exit).
Stop(m) ==
  /\ phase[m] = "up"
  /\ departures < MaxDepartures
  /\ departures' = departures + 1
  /\ phase' = [phase EXCEPT ![m] = "stopping"]
  /\ UNCHANGED <<row, created, queue, job, ownerActive, applied, barred, faults>>

\* mutant: Stop also waits for the queue to drain
WorkersReturnDrained(m) == queue[m] = <<>> /\ \A w \in Workers : job[m][w].pc = "idle"
WorkersReturned(m)      == \A w \in Workers : job[m][w].pc = "idle"

Exit(m) ==
  /\ phase[m] = "stopping"
  /\ WorkersReturned(m)
  /\ phase' = [phase EXCEPT ![m] = "down"]
  /\ queue' = [queue EXCEPT ![m] = <<>>]
  /\ UNCHANGED <<row, created, job, ownerActive, applied, barred, faults, departures>>

-----------------------------------------------------------------------------
(* The environment.                                                        *)

Crash(m) ==
  /\ phase[m] # "down"
  /\ departures < MaxDepartures
  /\ departures' = departures + 1
  /\ phase' = [phase EXCEPT ![m] = "down"]
  /\ queue' = [queue EXCEPT ![m] = <<>>]
  /\ job' = [job EXCEPT ![m] = [w \in Workers |-> Idle]]
  /\ UNCHANGED <<row, created, ownerActive, applied, barred, faults>>

\* staleWorkerAfter passes without a heartbeat reaching the row.
HeartbeatExpires(o) ==
  /\ row[o].status = "running" /\ ~row[o].stale
  /\ Timely => ~Held(o)
  /\ row' = [row EXCEPT ![o].stale = TRUE]
  /\ UNCHANGED <<created, queue, job, phase, ownerActive, applied, barred, faults, departures>>

\* historyRetention passes; no executor runs for thirty days.
RetentionExpires(o) ==
  /\ row[o].completed = "recent" /\ ~Held(o)
  /\ row' = [row EXCEPT ![o].completed = "old"]
  /\ UNCHANGED <<created, queue, job, phase, ownerActive, applied, barred, faults, departures>>

\* An administrator deactivates the owner, and may activate him again.
DeactivateOwner ==
  /\ ownerActive
  /\ ownerActive' = FALSE
  /\ barred' = Queued
  /\ UNCHANGED <<row, created, queue, job, phase, applied, faults, departures>>

ReactivateOwner ==
  /\ ~ownerActive
  /\ ownerActive' = TRUE
  /\ barred' = {}
  /\ UNCHANGED <<row, created, queue, job, phase, applied, faults, departures>>

-----------------------------------------------------------------------------
Work(m, w) ==
  \/ Claim(m, w) \/ Load(m, w) \/ Authorize(m, w) \/ ReportApplying(m, w) \/ Apply(m, w)
  \/ ReportVerifying(m, w) \/ Finish(m, w) \/ WriteFailure(m, w)

Next ==
  \/ \E m \in Managers : \/ \E kind \in Kinds : Submit(m, kind)
                         \/ \E o \in Ops : Retry(m, o)
                         \/ \E w \in Workers : Work(m, w) \/ Heartbeat(m, w)
                         \/ Dispatch(m) \/ CleanupCompleted(m)
                         \/ Start(m) \/ Stop(m) \/ Exit(m) \/ Crash(m)
  \/ \E o \in Ops : HeartbeatExpires(o) \/ RetentionExpires(o)
  \/ DeactivateOwner \/ ReactivateOwner

Spec == Init /\ [][Next]_vars

\* The goroutines run, the dispatch ticker fires, executors return (Helm and
\* tool calls have timeouts), an orphaned lease ages, and the deployment
\* restarts a replica that is down.
Fairness ==
  /\ \A m \in Managers :
       /\ \A w \in Workers : WF_vars(Work(m, w))
       /\ WF_vars(Dispatch(m)) /\ WF_vars(Start(m)) /\ WF_vars(Exit(m))
  /\ \A o \in Ops : WF_vars(HeartbeatExpires(o))

FairSpec == Spec /\ Fairness

-----------------------------------------------------------------------------
TypeOK ==
  /\ row \in [Ops -> Row]
  /\ created \in 0..MaxOps
  /\ queue \in [Managers -> Seq(Ops)]
  /\ job \in [Managers -> [Workers -> Job]]
  /\ phase \in [Managers -> {"down", "up", "stopping"}]
  /\ ownerActive \in BOOLEAN
  /\ applied \in [Ops -> Nat]
  /\ barred \in SUBSET Ops
  /\ faults \in 0..MaxFaults
  /\ departures \in 0..MaxDepartures
  /\ \A m \in Managers : Len(queue[m]) <= QueueSize
  /\ \A m \in Managers, w \in Workers : job[m][w].pc # "idle" => job[m][w].op \in Ops

\* An operation's change is applied at most once, although its id may wait
\* several times in the queues of several replicas, be claimed while another
\* replica recovers it, and be recovered after a crash or a lost update.
AppliedAtMostOnce == \A o \in Ops : applied[o] <= 1

\* Retry is offered only when nothing was applied and no worker can still
\* apply anything: package-releases.md, "only when the operation is safe to
\* repeat".
RetryIsSafe == \A o \in Ops : IsRetryable(row[o]) => applied[o] = 0 /\ ~Held(o)

\* An operation is shown as succeeded only when its change was applied.
SuccessIsReal == \A o \in Ops : row[o].status = "succeeded" => applied[o] = 1

\* An operation that was queued, or still queued, while its owner was inactive
\* is not applied before he is active again, whichever replica picks it up.
BarredNeverApplied == \A o \in barred : applied[o] = 0

\* A terminal row carries no lease, shows full progress and, if it succeeded,
\* no error.
TerminalIsSettled ==
  \A o \in Ops : row[o].status \in {"succeeded", "failed"} =>
    /\ row[o].stage = "final" /\ row[o].worker = NoManager
    /\ row[o].status = "succeeded" => row[o].code = "none"

\* Once the worker that ran an operation has recorded its verdict, no retry,
\* recovery or late write of any replica changes it.
VerdictIsFinal ==
  [][\A o \in Ops :
       /\ row[o].status \in {"succeeded", "failed"}
       /\ row[o].code # "OPERATION_INTERRUPTED"
       => row'[o].status \in {row[o].status, "purged"} /\ row'[o].code \in {row[o].code, "none"}]_vars

\* Retention removes history only: no operation disappears before it ended.
OnlyEndedArePurged ==
  [][\A o \in Ops : row[o].status \in {"queued", "running"} => row'[o].status # "purged"]_vars

\* Every operation accepted from a user ends, although its id may have been
\* dropped by a full queue, its worker killed or its final write lost.
EveryOperationEnds ==
  \A o \in Ops : row[o].status = "queued" ~> row[o].status \in {"succeeded", "failed", "purged"}

\* Stop returns: a stopping manager is eventually down.
StopReturns == \A m \in Managers : phase[m] = "stopping" ~> phase[m] = "down"

\* The submitter's view: the table's status column and the cluster's changes.
Lifecycle == INSTANCE OperationLifecycle WITH
  LateVerdicts <- ~Timely,
  status <- [o \in Ops |-> row[o].status],
  effect <- applied

\* OperationManager implements the life cycle of a persisted operation
\* (model.Operation: "a durable record for a long-running write operation").
ImplementsLifecycle == Lifecycle!Spec

-----------------------------------------------------------------------------
(* The inductive invariant behind the safety properties.  The claim is a   *)
(* lease that is never granted twice; whoever holds an operation is its    *)
(* only holder, and what has been applied follows from the holder's place. *)

OneHolder ==
  \A o \in Ops, m, n \in Managers, v, w \in Workers :
    Holds(m, v, o) /\ Holds(n, w, o) => m = n /\ v = w

\* A held operation is running, unless it was recovered under its holder.
HeldRows ==
  \A m \in Managers, w \in Workers, o \in Ops : Holds(m, w, o) =>
    \/ row[o].status = "running"
    \/ row[o].status = "failed" /\ row[o].code = "OPERATION_INTERRUPTED"

NotStarted ==
  \A o \in Ops : /\ row[o].status \in {"absent", "queued"} => applied[o] = 0
                 /\ o > created => row[o].status = "absent"

HolderEffect ==
  \A m \in Managers, w \in Workers, o \in Ops : Holds(m, w, o) =>
    /\ job[m][w].pc \in {"claimed", "loaded", "executing", "applying"} =>
         job[m][w].code = "none" /\ applied[o] = 0
    /\ job[m][w].pc = "verifying" => job[m][w].code = "none"
    /\ job[m][w].pc \in {"verifying", "returned"} /\ job[m][w].code = "none" => applied[o] = 1
    /\ job[m][w].code \in RetryableCodes => applied[o] = 0

\* Only the steps up to the owner check touch a barred operation.
BarredRows ==
  /\ barred # {} => ~ownerActive
  /\ \A o \in Ops : o \in barred => o <= created
  /\ \A m \in Managers, w \in Workers, o \in Ops :
       o \in barred /\ Holds(m, w, o) => job[m][w].pc \in {"claimed", "loaded", "failing"}

\* Only ended operations age, and nobody holds one that has.
CompletedRows ==
  \A o \in Ops : /\ row[o].completed # "never" => row[o].status \in {"succeeded", "failed"}
                 /\ row[o].completed = "old" => ~Held(o)

LeaseInv ==
  /\ CompletedRows /\ OneHolder /\ HeldRows /\ NotStarted /\ HolderEffect /\ BarredRows
  /\ AppliedAtMostOnce /\ RetryIsSafe /\ SuccessIsReal /\ BarredNeverApplied

-----------------------------------------------------------------------------
\* manager.go:110 tells the user of an interrupted operation that "The server
\* stopped while this operation was running": then no live worker runs it.
\* This rests on Timely: delayed heartbeats make the message untrue.
InterruptedMeansStopped ==
  \A o \in Ops : row[o].status = "failed" /\ row[o].code = "OPERATION_INTERRUPTED" => ~Held(o)

\* manager.go:305 tells the user of a failed operation that "The operation
\* owner is no longer active": then the owner was inactive when the worker
\* gave up.
InactiveMeansInactive ==
  [][\A m \in Managers, w \in Workers :
       job'[m][w].code = "USER_NOT_ACTIVE" /\ job[m][w].code # "USER_NOT_ACTIVE"
         => ~ownerActive]_vars

\* package-releases.md:130: "AI changes require a new inspection before
\* another attempt": an AI change is never a retry of another.
AIChangeIsNeverRetried ==
  \A o \in Ops : row[o].kind = "ai_change" => row[o].parent = NoOp

=============================================================================
