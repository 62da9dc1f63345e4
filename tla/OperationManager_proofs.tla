---------------------- MODULE OperationManager_proofs ----------------------
(***************************************************************************)
(* Theorems about the operation manager, for any number of replicas,       *)
(* workers, operations, faults and departures, with timely heartbeats or   *)
(* without them.                                                           *)
(***************************************************************************)
EXTENDS OperationManager, FiniteSetTheorems, SequenceTheorems, TLAPS

\* Sets of operation ids are finite, so a dispatch turn lists finitely many.
LEMMA OpsFinite == ASSUME NEW S \in SUBSET Ops PROVE Cardinality(S) \in Nat
<1>1. IsFiniteSet(Ops)
  BY FS_Interval, ConstantsAssumption DEF Ops
<1>2. IsFiniteSet(S)
  BY <1>1, FS_Subset
<1>3. QED
  BY <1>2, FS_CardinalityType

\* The rows the statements write are rows.
LEMMA NewRowTypes ==
  /\ AbsentRow \in Row
  /\ [AbsentRow EXCEPT !.status = "purged"] \in Row
  /\ \A kind \in Kinds : NewRow(kind, NoOp) \in Row
<1>1. AbsentRow \in Row
  BY DEF Row, AbsentRow, Status, Codes, Kinds, NoOp
<1>2. [AbsentRow EXCEPT !.status = "purged"] \in Row
  BY DEF Row, AbsentRow, Status, Codes, Kinds, NoOp
<1>3. ASSUME NEW kind \in Kinds PROVE NewRow(kind, NoOp) \in Row
  BY DEF Row, AbsentRow, NewRow, Status, Codes, Kinds, NoOp
<1>4. QED
  BY <1>1, <1>2, <1>3

\* The rows written by claims and by final updates are rows.
LEMMA RowTypes ==
  ASSUME NEW r \in Row
  PROVE  /\ \A m \in Managers : ClaimedRow(m, r) \in Row
         /\ SucceededRow(r) \in Row
         /\ \A code \in Codes : FailedRow(r, code) \in Row
         /\ \A b \in BOOLEAN : [r EXCEPT !.stale = b] \in Row
         /\ \A s \in {"applying", "verifying"} : [r EXCEPT !.stage = s] \in Row
<1>1. ASSUME NEW m \in Managers PROVE ClaimedRow(m, r) \in Row
  BY DEF Row, ClaimedRow, Status
<1>2. SucceededRow(r) \in Row
  BY DEF Row, SucceededRow, Status
<1>3. ASSUME NEW code \in Codes PROVE FailedRow(r, code) \in Row
  BY DEF Row, FailedRow, Status
<1>4. ASSUME NEW b \in BOOLEAN PROVE [r EXCEPT !.stale = b] \in Row
  BY DEF Row
<1>5. ASSUME NEW s \in {"applying", "verifying"} PROVE [r EXCEPT !.stage = s] \in Row
  BY DEF Row
<1>6. QED
  BY <1>1, <1>2, <1>3, <1>4, <1>5

\* Retry's copy of a previous row is a row.
LEMMA RetryRowType ==
  ASSUME row \in [Ops -> Row], NEW o \in Ops
  PROVE  RetryRow(o) \in Row
<1>1. row[o] \in Row
  OBVIOUS
<1>2. ASSUME NEW r \in Row
      PROVE  [r EXCEPT !.status = "queued", !.parent = o, !.code = "none", !.stage = "queued",
                       !.worker = NoManager, !.stale = TRUE, !.completed = "never"] \in Row
  BY DEF Row, Status, Codes
<1>3. QED
  BY <1>1, <1>2 DEF RetryRow

\* recoverStale leaves a table of rows.
LEMMA RecoverStaleType ==
  ASSUME NEW t \in [Ops -> Row]
  PROVE  RecoverStale(t) \in [Ops -> Row]
  BY RowTypes DEF RecoverStale, Codes

\* What a queue looks like after an id was offered to it.
LEMMA EnqueueType ==
  ASSUME TypeOK, NEW m \in Managers, NEW o \in Ops, Enqueue(m, o)
  PROVE  queue' \in [Managers -> Seq(Ops)] /\ \A n \in Managers : Len(queue'[n]) <= QueueSize
<1>1. CASE phase[m] = "up" /\ Len(queue[m]) < QueueSize
  <2>1. /\ Append(queue[m], o) \in Seq(Ops)
        /\ Len(Append(queue[m], o)) = Len(queue[m]) + 1
        /\ Len(queue[m]) \in Nat
    BY DEF TypeOK
  <2>2. queue' = [queue EXCEPT ![m] = Append(queue[m], o)]
    BY <1>1 DEF Enqueue
  <2>3. QED
    BY <1>1, <2>1, <2>2, ConstantsAssumption DEF TypeOK
<1>2. CASE ~(phase[m] = "up" /\ Len(queue[m]) < QueueSize)
  <2>1. queue' = queue
    BY <1>2 DEF Enqueue
  <2>2. QED
    BY <2>1 DEF TypeOK
<1>3. QED
  BY <1>1, <1>2

\* Whatever is offered, Manager.queue holds ids and at most QueueSize of them.
LEMMA ClipType ==
  ASSUME NEW s \in Seq(Ops), NEW S \in SUBSET Ops, NEW ids \in InOrder(S)
  PROVE  Clip(s \o ids) \in Seq(Ops) /\ Len(Clip(s \o ids)) <= QueueSize
<1>1. ids \in Seq(Ops)
  BY OpsFinite DEF InOrder
<1>2. s \o ids \in Seq(Ops)
  BY <1>1, ConcatProperties
<1> DEFINE t == s \o ids
           n == IF Len(t) < QueueSize THEN Len(t) ELSE QueueSize
<1>3. Len(t) \in Nat /\ n \in Nat /\ n <= Len(t) /\ n <= QueueSize
  BY <1>2, ConstantsAssumption
<1>4. \A i \in 1..n : t[i] \in Ops
  BY <1>2, <1>3
<1>5. SubSeq(t, 1, n) \in Seq(Ops) /\ Len(SubSeq(t, 1, n)) = IF 1 <= n THEN n - 1 + 1 ELSE 0
  <2> HIDE DEF t, n
  <2> QED
    BY <1>3, <1>4, SubSeqProperties
<1>6. QED
  BY <1>3, <1>5 DEF Clip

-----------------------------------------------------------------------------
\* NewManager's state is well typed.
LEMMA InitType == Init => TypeOK
  BY ConstantsAssumption
  DEF Init, TypeOK, Idle, Job, AbsentRow, Row, Status, Kinds, Codes, NoOp, Ops

\* Persisting and enqueueing a new operation keeps the types.
LEMMA CreateType ==
  ASSUME TypeOK, NEW m \in Managers, NEW r \in Row, Create(m, r)
  PROVE  TypeOK'
<1>1. created + 1 \in Ops
  BY ConstantsAssumption DEF TypeOK, Create, Ops
<1>2. queue' \in [Managers -> Seq(Ops)] /\ \A n \in Managers : Len(queue'[n]) <= QueueSize
  BY <1>1, EnqueueType DEF Create
<1>3. row' \in [Ops -> Row] /\ created' \in 0..MaxOps /\ barred' \in SUBSET Ops
  BY <1>1, ConstantsAssumption DEF TypeOK, Create, Ops
<1>4. QED
  BY <1>2, <1>3 DEF TypeOK, Create

\* One lemma for the jobs: every step of a worker leaves it a well-formed job.
LEMMA WorkType ==
  ASSUME TypeOK, NEW m \in Managers, NEW w \in Workers, Work(m, w)
  PROVE  TypeOK'
<1> USE DEF TypeOK
<1>0. /\ job[m][w] \in Job
      /\ job[m][w].pc # "idle" => job[m][w].op \in Ops
      /\ \A n \in Managers, v \in Workers : job[n][v] \in Job
  OBVIOUS
<1>a. ASSUME NEW pc, NEW o \in Ops, NEW code \in Codes,
             pc \in {"claimed", "executing", "verifying", "returned", "failing"},
             SetJob(m, w, pc, o, code)
      PROVE  /\ job' \in [Managers -> [Workers -> Job]]
             /\ \A n \in Managers, v \in Workers : job'[n][v].pc # "idle" => job'[n][v].op \in Ops
  BY <1>0, <1>a DEF SetJob, Job
<1>b. ASSUME SetJob(m, w, "idle", NoOp, "none")
      PROVE  /\ job' \in [Managers -> [Workers -> Job]]
             /\ \A n \in Managers, v \in Workers : job'[n][v].pc # "idle" => job'[n][v].op \in Ops
  BY <1>0, <1>b DEF SetJob, Job, Codes
<1>c. ASSUME NEW from, NEW to, from # "idle",
             to \in {"loaded", "executing", "applying", "returned"}, Step(m, w, from, to)
      PROVE  /\ job' \in [Managers -> [Workers -> Job]]
             /\ \A n \in Managers, v \in Workers : job'[n][v].pc # "idle" => job'[n][v].op \in Ops
  BY <1>0, <1>c DEF Step, Job
<1>d. ASSUME DbOk \/ DbFault PROVE faults' \in 0..MaxFaults
  BY <1>d, ConstantsAssumption DEF DbOk, DbFault
<1>e. \A o \in Ops : row[o] \in Row
  OBVIOUS
<1>1. CASE Claim(m, w)
  <2> DEFINE o == Head(queue[m])
  <2>1. queue[m] \in Seq(Ops) /\ queue[m] # <<>>
    BY <1>1 DEF Claim
  <2>2. /\ o \in Ops /\ Tail(queue[m]) \in Seq(Ops)
        /\ Len(Tail(queue[m])) = Len(queue[m]) - 1 /\ Len(queue[m]) \in Nat
    BY <2>1, HeadTailProperties
  <2>3. queue' \in [Managers -> Seq(Ops)] /\ \A n \in Managers : Len(queue'[n]) <= QueueSize
    BY <1>1, <2>2, ConstantsAssumption DEF Claim
  <2>4. [row EXCEPT ![o] = ClaimedRow(m, @)] \in [Ops -> Row]
    BY <1>e, <2>2, RowTypes
  <2>5. row' \in [Ops -> Row]
    BY <1>1, <2>4 DEF Claim
  <2>6. /\ job' \in [Managers -> [Workers -> Job]]
        /\ \A n \in Managers, v \in Workers : job'[n][v].pc # "idle" => job'[n][v].op \in Ops
    BY <1>1, <1>a, <2>2 DEF Claim, Codes
  <2>7. QED
    BY <1>1, <1>d, <2>3, <2>5, <2>6 DEF Claim
<1>2. CASE Load(m, w)
  BY <1>0, <1>2, <1>a, <1>c, <1>d DEF Load, GiveUp, Codes
<1>3. CASE Authorize(m, w)
  BY <1>0, <1>3, <1>a, <1>c, <1>d DEF Authorize, GiveUp, Codes
<1>f. ASSUME NEW o \in Ops, NEW stage \in {"applying", "verifying"}, ReportStage(m, o, stage)
      PROVE  row' \in [Ops -> Row] /\ faults' \in 0..MaxFaults
  <2>1. [row[o] EXCEPT !.stage = stage] \in Row
    BY <1>e, RowTypes
  <2>2. [row EXCEPT ![o] = [row[o] EXCEPT !.stage = stage]] \in [Ops -> Row]
    BY <2>1
  <2>3. QED
    BY <1>f, <1>d, <2>2 DEF ReportStage
<1>4. CASE ReportApplying(m, w)
  <2>1. job[m][w].op \in Ops
    BY <1>0, <1>4 DEF ReportApplying, Step
  <2>2. QED
    BY <1>4, <1>c, <1>f, <2>1 DEF ReportApplying
<1>5. CASE Apply(m, w)
  <2>1. job[m][w].op \in Ops
    BY <1>0, <1>5 DEF Apply
  <2>2. PICK out \in Outcomes(row[job[m][w].op].kind) :
          /\ applied' = [applied EXCEPT ![job[m][w].op] = @ + out.changes]
          /\ SetJob(m, w, IF out.code = "none" THEN "verifying" ELSE "returned", job[m][w].op, out.code)
    BY <1>5 DEF Apply
  <2>3. out.code \in Codes /\ out.changes \in Nat
    BY <2>2 DEF Outcomes, Codes
  <2>4. applied' \in [Ops -> Nat]
    BY <2>1, <2>2, <2>3
  <2>5. /\ job' \in [Managers -> [Workers -> Job]]
        /\ \A n \in Managers, v \in Workers : job'[n][v].pc # "idle" => job'[n][v].op \in Ops
    BY <1>a, <2>1, <2>2, <2>3
  <2>6. QED
    BY <1>5, <2>4, <2>5 DEF Apply
<1>6. CASE ReportVerifying(m, w)
  <2>1. job[m][w].op \in Ops
    BY <1>0, <1>6 DEF ReportVerifying, Step
  <2>2. QED
    BY <1>6, <1>c, <1>f, <2>1 DEF ReportVerifying
<1>7. CASE Finish(m, w)
  <2>1. job[m][w].op \in Ops /\ job[m][w].code \in Codes
    BY <1>0, <1>7 DEF Finish, Job
  <2>2. [row EXCEPT ![job[m][w].op] = SucceededRow(@)] \in [Ops -> Row]
    BY <1>e, <2>1, RowTypes
  <2>3. row' \in [Ops -> Row] /\ faults' \in 0..MaxFaults
    BY <1>7, <1>d, <2>2 DEF Finish
  <2>4. /\ job' \in [Managers -> [Workers -> Job]]
        /\ \A n \in Managers, v \in Workers : job'[n][v].pc # "idle" => job'[n][v].op \in Ops
    BY <1>7, <1>a, <1>b, <2>1 DEF Finish, GiveUp
  <2>5. QED
    BY <1>7, <2>3, <2>4 DEF Finish
<1>8. CASE WriteFailure(m, w)
  <2>1. job[m][w].op \in Ops /\ job[m][w].code \in Codes
    BY <1>0, <1>8 DEF WriteFailure, Job
  <2>2. [row EXCEPT ![job[m][w].op] = FailedRow(@, job[m][w].code)] \in [Ops -> Row]
    BY <1>e, <2>1, RowTypes
  <2>3. QED
    BY <1>8, <1>b, <1>d, <2>2 DEF WriteFailure
<1>9. QED
  BY <1>1, <1>2, <1>3, <1>4, <1>5, <1>6, <1>7, <1>8 DEF Work

\* Every step keeps the types.
LEMMA NextType == TypeOK /\ [Next]_vars => TypeOK'
<1> SUFFICES ASSUME TypeOK, [Next]_vars PROVE TypeOK'
  OBVIOUS
<1>e. \A o \in Ops : row[o] \in Row
  BY DEF TypeOK
<1>1. ASSUME NEW m \in Managers, NEW kind \in Kinds, Submit(m, kind) PROVE TypeOK'
  BY <1>1, NewRowTypes, CreateType DEF Submit
<1>2. ASSUME NEW m \in Managers, NEW o \in Ops, Retry(m, o) PROVE TypeOK'
  BY <1>2, RetryRowType, CreateType DEF Retry, TypeOK
<1>3. ASSUME NEW m \in Managers, NEW w \in Workers, Work(m, w) PROVE TypeOK'
  BY <1>3, WorkType
<1>4. ASSUME NEW m \in Managers, NEW w \in Workers, Heartbeat(m, w) PROVE TypeOK'
  <2>1. job[m][w].op \in Ops
    BY <1>4 DEF Heartbeat, TypeOK
  <2>2. [row[job[m][w].op] EXCEPT !.stale = FALSE] \in Row
    BY <1>e, <2>1, RowTypes
  <2>3. QED
    BY <1>4, <2>2 DEF Heartbeat, TypeOK
<1>5. ASSUME NEW m \in Managers, Dispatch(m) PROVE TypeOK'
  <2>1. row' \in [Ops -> Row]
    BY <1>5, RecoverStaleType DEF Dispatch, TypeOK
  <2>2. PICK ids \in InOrder(Queued) : queue' = [queue EXCEPT ![m] = Clip(@ \o ids)]
    BY <1>5 DEF Dispatch
  <2>3. Queued \in SUBSET Ops /\ queue[m] \in Seq(Ops)
    BY DEF Queued, TypeOK
  <2>4. Clip(queue[m] \o ids) \in Seq(Ops) /\ Len(Clip(queue[m] \o ids)) <= QueueSize
    BY <2>3, ClipType
  <2>5. queue' \in [Managers -> Seq(Ops)] /\ \A n \in Managers : Len(queue'[n]) <= QueueSize
    BY <2>2, <2>4 DEF TypeOK
  <2>6. QED
    BY <1>5, <2>1, <2>5 DEF Dispatch, TypeOK
<1>6. ASSUME NEW m \in Managers, CleanupCompleted(m) PROVE TypeOK'
  BY <1>6, <1>e, NewRowTypes DEF CleanupCompleted, TypeOK
<1>7. ASSUME NEW m \in Managers, Start(m) PROVE TypeOK'
  BY <1>7, RecoverStaleType DEF Start, TypeOK
<1>8. ASSUME NEW m \in Managers, Stop(m) PROVE TypeOK'
  BY <1>8, ConstantsAssumption DEF Stop, TypeOK
<1>9. ASSUME NEW m \in Managers, Exit(m) PROVE TypeOK'
  BY <1>9, ConstantsAssumption DEF Exit, TypeOK
<1>10. ASSUME NEW m \in Managers, Crash(m) PROVE TypeOK'
  BY <1>10, ConstantsAssumption DEF Crash, TypeOK, Idle, Job, Codes
<1>11. ASSUME NEW o \in Ops, HeartbeatExpires(o) PROVE TypeOK'
  <2>1. [row[o] EXCEPT !.stale = TRUE] \in Row
    BY <1>e DEF Row
  <2>2. QED
    BY <1>11, <2>1 DEF HeartbeatExpires, TypeOK
<1>12. ASSUME NEW o \in Ops, RetentionExpires(o) PROVE TypeOK'
  <2>1. [row[o] EXCEPT !.completed = "old"] \in Row
    BY <1>e DEF Row
  <2>2. QED
    BY <1>12, <2>1 DEF RetentionExpires, TypeOK
<1>13. CASE DeactivateOwner \/ ReactivateOwner
  BY <1>13 DEF DeactivateOwner, ReactivateOwner, TypeOK, Queued
<1>14. CASE UNCHANGED vars
  BY <1>14 DEF vars, TypeOK
<1>15. QED
  BY <1>1, <1>2, <1>3, <1>4, <1>5, <1>6, <1>7, <1>8, <1>9, <1>10, <1>11, <1>12, <1>13, <1>14 DEF Next

\* In every reachable state the variables have their types, the bounded
\* queues included: no send on Manager.queue ever exceeds its capacity.
THEOREM TypeCorrect == Spec => []TypeOK
<1>1. Init => TypeOK
  BY InitType
<1>2. TypeOK /\ [Next]_vars => TypeOK'
  BY NextType
<1>3. QED
  BY <1>1, <1>2, PTL DEF Spec

-----------------------------------------------------------------------------
(* The lease.  A step of worker w of m changes no other worker's job and   *)
(* no row but that of the operation in hand.                               *)

\* SetJob changes the job of one worker only.
LEMMA SetJobEffect ==
  ASSUME TypeOK, NEW m \in Managers, NEW w \in Workers, NEW pc, NEW o, NEW code, SetJob(m, w, pc, o, code)
  PROVE  /\ job'[m][w].pc = pc /\ job'[m][w].op = o /\ job'[m][w].code = code
         /\ \A n \in Managers, v \in Workers : n # m \/ v # w => job'[n][v] = job[n][v]
  BY DEF SetJob, TypeOK

\* Step changes the place of one worker only.
LEMMA StepEffect ==
  ASSUME TypeOK, NEW m \in Managers, NEW w \in Workers, NEW from, NEW to, Step(m, w, from, to)
  PROVE  /\ job[m][w].pc = from
         /\ job'[m][w].pc = to /\ job'[m][w].op = job[m][w].op /\ job'[m][w].code = job[m][w].code
         /\ \A n \in Managers, v \in Workers : n # m \/ v # w => job'[n][v] = job[n][v]
  BY DEF Step, TypeOK, Job

\* A step that moves one job on, leaves all rows and effects alone and does
\* not release or start anything keeps the invariant if it keeps the facts
\* about the holder's place.
LEMMA PlaceStep ==
  ASSUME TypeOK, LeaseInv, NEW m \in Managers, NEW w \in Workers,
         job[m][w].pc # "idle", job'[m][w].pc # "idle", job'[m][w].op = job[m][w].op,
         \A n \in Managers, v \in Workers : n # m \/ v # w => job'[n][v] = job[n][v],
         \A o \in Ops : /\ row'[o].status = row[o].status /\ row'[o].code = row[o].code
                        /\ row'[o].completed = row[o].completed,
         UNCHANGED <<created, ownerActive, applied, barred>>,
         LET o == job[m][w].op IN
           /\ job'[m][w].pc \in {"claimed", "loaded", "executing", "applying"} =>
                job'[m][w].code = "none" /\ applied[o] = 0
           /\ job'[m][w].pc = "verifying" => job'[m][w].code = "none"
           /\ job'[m][w].pc \in {"verifying", "returned"} /\ job'[m][w].code = "none" => applied[o] = 1
           /\ job'[m][w].code \in RetryableCodes => applied[o] = 0
           /\ o \in barred => job'[m][w].pc \in {"claimed", "loaded", "failing"}
  PROVE  LeaseInv'
<1>1. \A n \in Managers, v \in Workers, o \in Ops : Holds(n, v, o)' <=> Holds(n, v, o)
  BY DEF Holds
<1>2. OneHolder' /\ HeldRows'
  BY <1>1 DEF LeaseInv, OneHolder, HeldRows
<1>3. CompletedRows' /\ RetryIsSafe'
  BY <1>1 DEF LeaseInv, CompletedRows, RetryIsSafe, IsRetryable, Held
<1>4. NotStarted' /\ AppliedAtMostOnce' /\ SuccessIsReal' /\ BarredNeverApplied'
  BY DEF LeaseInv, NotStarted, AppliedAtMostOnce, SuccessIsReal, BarredNeverApplied
<1>5. HolderEffect'
  BY <1>1 DEF LeaseInv, HolderEffect, Holds
<1>6. BarredRows'
  <2>1. UNCHANGED <<barred, ownerActive, created>>
    OBVIOUS
  <2>2. ASSUME NEW n \in Managers, NEW v \in Workers, NEW o \in Ops, o \in barred, Holds(n, v, o)'
        PROVE  job'[n][v].pc \in {"claimed", "loaded", "failing"}
    <3>1. CASE n = m /\ v = w
      BY <2>2, <3>1 DEF Holds
    <3>2. CASE n # m \/ v # w
      <4>1. Holds(n, v, o) /\ job'[n][v] = job[n][v]
        BY <1>1, <2>2, <3>2
      <4>2. QED
        BY <2>1, <2>2, <4>1 DEF LeaseInv, BarredRows
    <3>3. QED
      BY <3>1, <3>2
  <2>3. QED
    BY <2>1, <2>2 DEF LeaseInv, BarredRows
<1>7. QED
  BY <1>2, <1>3, <1>4, <1>5, <1>6 DEF LeaseInv

\* The claim grants the lease of an operation that nobody holds.
LEMMA ClaimLease ==
  ASSUME TypeOK, LeaseInv, NEW m \in Managers, NEW w \in Workers, Claim(m, w)
  PROVE  LeaseInv'
<1> DEFINE o == Head(queue[m])
<1>1. o \in Ops
  BY HeadTailProperties DEF Claim, TypeOK
<1>2. UNCHANGED <<created, ownerActive, applied, barred>> /\ job[m][w].pc = "idle"
  BY DEF Claim
<1>3. CASE CanClaim(row[o]) /\ row' = [row EXCEPT ![o] = ClaimedRow(m, @)]
  <2>1. /\ row[o].status = "queued" /\ row'[o].status = "running" /\ row'[o].completed = row[o].completed
        /\ \A p \in Ops : p # o => row'[p] = row[p]
    BY <1>1, <1>3 DEF CanClaim, ClaimedRow, TypeOK, Row
  <2>2. row[o].completed = "never" /\ applied[o] = 0 /\ ~Held(o)
    <3>1. row[o].completed = "never"
      BY <1>1, <2>1 DEF LeaseInv, CompletedRows
    <3>2. applied[o] = 0
      BY <1>1, <2>1 DEF LeaseInv, NotStarted
    <3>3. ~Held(o)
      BY <1>1, <2>1 DEF LeaseInv, HeldRows, Held
    <3>4. QED
      BY <3>1, <3>2, <3>3
  <2>3. CASE SetJob(m, w, "claimed", o, "none")
    <3>1. /\ job'[m][w].pc = "claimed" /\ job'[m][w].op = o /\ job'[m][w].code = "none"
          /\ \A n \in Managers, v \in Workers : n # m \/ v # w => job'[n][v] = job[n][v]
      BY <2>3, SetJobEffect
    <3>2. \A n \in Managers, v \in Workers, p \in Ops :
            Holds(n, v, p)' <=> Holds(n, v, p) \/ (n = m /\ v = w /\ p = o)
      BY <1>1, <1>2, <3>1 DEF Holds
    <3>3. OneHolder'
      BY <1>1, <2>2, <3>2 DEF LeaseInv, OneHolder, Held
    <3>4. HeldRows'
      BY <1>1, <2>1, <3>2 DEF LeaseInv, HeldRows
    <3>5. CompletedRows' /\ RetryIsSafe'
      BY <1>1, <1>2, <2>1, <2>2, <3>2 DEF LeaseInv, CompletedRows, RetryIsSafe, IsRetryable, Held
    <3>6. NotStarted' /\ AppliedAtMostOnce' /\ SuccessIsReal' /\ BarredNeverApplied'
      BY <1>1, <1>2, <2>1, <2>2 DEF LeaseInv, NotStarted, AppliedAtMostOnce, SuccessIsReal, BarredNeverApplied, TypeOK, Ops
    <3>7. HolderEffect'
      BY <1>1, <1>2, <2>2, <3>1, <3>2 DEF LeaseInv, HolderEffect, Holds, RetryableCodes
    <3>8. BarredRows'
      <4>1. \A n \in Managers, v \in Workers, p \in Ops : p \in barred /\ Holds(n, v, p)' =>
              job'[n][v].pc \in {"claimed", "loaded", "failing"}
        BY <1>2, <3>1, <3>2 DEF LeaseInv, BarredRows, Holds
      <4>2. QED
        BY <1>2, <4>1 DEF LeaseInv, BarredRows
    <3>9. QED
      BY <3>3, <3>4, <3>5, <3>6, <3>7, <3>8 DEF LeaseInv
  <2>4. CASE UNCHANGED job
    <3>1. \A n \in Managers, v \in Workers, p \in Ops : Holds(n, v, p)' <=> Holds(n, v, p)
      BY <2>4 DEF Holds
    <3>2. OneHolder' /\ HeldRows'
      BY <1>1, <2>1, <3>1 DEF LeaseInv, OneHolder, HeldRows
    <3>3. CompletedRows' /\ RetryIsSafe'
      BY <1>1, <1>2, <2>1, <2>2, <3>1 DEF LeaseInv, CompletedRows, RetryIsSafe, IsRetryable, Held
    <3>4. NotStarted' /\ AppliedAtMostOnce' /\ SuccessIsReal' /\ BarredNeverApplied'
      BY <1>1, <1>2, <2>1, <2>2 DEF LeaseInv, NotStarted, AppliedAtMostOnce, SuccessIsReal, BarredNeverApplied, TypeOK, Ops
    <3>5. HolderEffect' /\ BarredRows'
      BY <1>2, <2>4, <3>1 DEF LeaseInv, HolderEffect, BarredRows, Holds, TypeOK
    <3>6. QED
      BY <3>2, <3>3, <3>4, <3>5 DEF LeaseInv
  <2>5. QED
    BY <1>3, <2>3, <2>4 DEF Claim
<1>4. CASE UNCHANGED <<row, job>>
  BY <1>2, <1>4 DEF LeaseInv, OneHolder, HeldRows, CompletedRows, RetryIsSafe, IsRetryable, NotStarted,
     AppliedAtMostOnce, SuccessIsReal, BarredNeverApplied, HolderEffect, BarredRows, Held, Holds
<1>5. QED
  BY <1>3, <1>4 DEF Claim

\* What a step that takes no operation up may do to a row: nothing that
\* matters, recover it, purge it, age it, or end it for its last holder.
Kept(o)      == row'[o].status = row[o].status /\ row'[o].code = row[o].code /\ row'[o].completed = row[o].completed
Recovered(o) == row[o].status = "running" /\ row'[o].status = "failed" /\ row'[o].code = "OPERATION_INTERRUPTED"
                /\ row'[o].completed = "recent"
Purged(o)    == row[o].completed = "old" /\ row'[o].status = "purged" /\ row'[o].completed = "never"
Aged(o)      == row'[o].status = row[o].status /\ row'[o].code = row[o].code /\ row[o].completed = "recent" /\ ~Held(o)
Ended(o)     == /\ ~Held(o)' /\ row[o].status # "absent" /\ row'[o].completed = "recent"
                /\ \/ row'[o].status = "succeeded" /\ applied[o] = 1
                   \/ row'[o].status = "failed" /\ (row'[o].code \in RetryableCodes => applied[o] = 0)

\* A statement that changes rows but no worker keeps the invariant if it
\* moves each row as the life cycle allows.
LEMMA TableStep ==
  ASSUME TypeOK, LeaseInv,
         \A n \in Managers, v \in Workers : job'[n][v] = job[n][v] \/ job'[n][v].pc = "idle",
         \A o \in Ops : Kept(o) \/ Recovered(o) \/ Purged(o) \/ Aged(o) \/ Ended(o),
         UNCHANGED <<created, ownerActive, applied, barred>>
  PROVE  LeaseInv'
<1>1. \A n \in Managers, v \in Workers, o \in Ops :
        Holds(n, v, o)' => Holds(n, v, o) /\ job'[n][v] = job[n][v]
  BY DEF Holds
<1>2. \A o \in Ops : Held(o)' => Held(o)
  BY <1>1 DEF Held
<1>3. OneHolder'
  BY <1>1 DEF LeaseInv, OneHolder
<1>4. HeldRows'
  <2> SUFFICES ASSUME NEW n \in Managers, NEW v \in Workers, NEW o \in Ops, Holds(n, v, o)'
               PROVE  (row[o].status = "running" \/ (row[o].status = "failed" /\ row[o].code = "OPERATION_INTERRUPTED"))'
    BY DEF HeldRows
  <2>1. Held(o) /\ Held(o)'
    BY <1>1 DEF Held
  <2>2. ~Purged(o)
    BY <2>1 DEF Purged, LeaseInv, CompletedRows
  <2>3. QED
    BY <1>1, <2>1, <2>2 DEF LeaseInv, HeldRows, Kept, Recovered, Aged, Ended
<1>5. NotStarted'
  BY DEF LeaseInv, NotStarted, CompletedRows, Kept, Recovered, Purged, Aged, Ended
<1>6. HolderEffect'
  BY <1>1 DEF LeaseInv, HolderEffect, Holds
<1>7. BarredRows'
  <2>1. \A n \in Managers, v \in Workers, o \in Ops :
          o \in barred /\ Holds(n, v, o)' => job'[n][v].pc \in {"claimed", "loaded", "failing"}
    BY <1>1 DEF LeaseInv, BarredRows
  <2>2. QED
    BY <2>1 DEF LeaseInv, BarredRows
<1>8. CompletedRows'
  <2> SUFFICES ASSUME NEW o \in Ops
               PROVE  /\ row'[o].completed # "never" => row'[o].status \in {"succeeded", "failed"}
                      /\ row'[o].completed = "old" => ~Held(o)'
    BY DEF CompletedRows
  <2>1. CASE Kept(o)
    BY <1>2, <2>1 DEF LeaseInv, CompletedRows, Kept
  <2>2. CASE Recovered(o) \/ Purged(o) \/ Ended(o)
    BY <2>2 DEF Recovered, Purged, Ended
  <2>3. CASE Aged(o)
    BY <1>2, <2>3 DEF LeaseInv, CompletedRows, Aged
  <2>4. QED
    BY <2>1, <2>2, <2>3
<1>9. RetryIsSafe'
  <2> SUFFICES ASSUME NEW o \in Ops, IsRetryable(row'[o])
               PROVE  applied[o] = 0 /\ ~Held(o)'
    BY DEF RetryIsSafe, IsRetryable
  <2>1. CASE Kept(o) \/ Aged(o)
    BY <1>2, <2>1 DEF LeaseInv, RetryIsSafe, IsRetryable, Kept, Aged
  <2>2. CASE Recovered(o) \/ Purged(o) \/ Ended(o)
    BY <2>2 DEF IsRetryable, RetryableCodes, Recovered, Purged, Ended
  <2>3. QED
    BY <2>1, <2>2
<1>10. AppliedAtMostOnce' /\ BarredNeverApplied'
  BY DEF LeaseInv, AppliedAtMostOnce, BarredNeverApplied
<1>11. SuccessIsReal'
  BY DEF LeaseInv, SuccessIsReal, Kept, Recovered, Purged, Aged, Ended
<1>12. QED
  BY <1>3, <1>4, <1>5, <1>6, <1>7, <1>8, <1>9, <1>10, <1>11 DEF LeaseInv

\* The last write of a holder, or its decision to abandon the row.
LEMMA ReleaseStep ==
  ASSUME TypeOK, LeaseInv, NEW m \in Managers, NEW w \in Workers, NEW o \in Ops,
         Holds(m, w, o), SetJob(m, w, "idle", NoOp, "none"),
         \/ UNCHANGED row
         \/ row' = [row EXCEPT ![o] = SucceededRow(@)] /\ applied[o] = 1
         \/ \E code \in Codes : /\ row' = [row EXCEPT ![o] = FailedRow(@, code)]
                                /\ code \in RetryableCodes => applied[o] = 0,
         UNCHANGED <<created, ownerActive, applied, barred>>
  PROVE  LeaseInv'
<1>1. /\ job'[m][w].pc = "idle"
      /\ \A n \in Managers, v \in Workers : n # m \/ v # w => job'[n][v] = job[n][v]
  BY SetJobEffect
<1>2. ~Held(o)' /\ row[o].status # "absent"
  BY <1>1 DEF Held, Holds, LeaseInv, OneHolder, HeldRows
<1>3. CASE UNCHANGED row
  <2>1. \A p \in Ops : Kept(p)
    BY <1>3 DEF Kept
  <2>2. QED
    BY <1>1, <2>1, TableStep
<1>4. CASE row' = [row EXCEPT ![o] = SucceededRow(@)] /\ applied[o] = 1
  <2>1. row'[o].status = "succeeded" /\ row'[o].completed = "recent"
    BY <1>4 DEF SucceededRow, TypeOK, Row
  <2>2. Ended(o) /\ \A p \in Ops : p # o => Kept(p)
    BY <1>2, <1>4, <2>1 DEF Ended, Kept, TypeOK
  <2>3. QED
    BY <1>1, <2>2, TableStep
<1>5. ASSUME NEW code \in Codes, row' = [row EXCEPT ![o] = FailedRow(@, code)],
             code \in RetryableCodes => applied[o] = 0
      PROVE  LeaseInv'
  <2>0. row[o] \in Row /\ row'[o] = FailedRow(row[o], code)
    BY <1>5 DEF TypeOK
  <2>1. row'[o].status = "failed" /\ row'[o].code = code /\ row'[o].completed = "recent"
    BY <2>0 DEF FailedRow, Row
  <2>2. Ended(o) /\ \A p \in Ops : p # o => Kept(p)
    BY <1>2, <1>5, <2>1 DEF Ended, Kept, TypeOK
  <2>3. QED
    BY <1>1, <2>2, TableStep
<1>6. QED
  BY <1>3, <1>4, <1>5

\* Every step of a worker keeps the lease invariant.
LEMMA WorkLease ==
  ASSUME TypeOK, LeaseInv, NEW m \in Managers, NEW w \in Workers, Work(m, w)
  PROVE  LeaseInv'
<1> DEFINE o == job[m][w].op
<1>0. job[m][w].pc # "idle" => o \in Ops /\ Holds(m, w, o) /\ job[m][w].code \in Codes
  BY DEF TypeOK, Holds, Job
<1>1. CASE Claim(m, w)
  BY <1>1, ClaimLease
<1>a. ASSUME NEW pc, NEW code, job[m][w].pc # "idle", pc # "idle", SetJob(m, w, pc, o, code)
      PROVE  /\ job'[m][w].pc = pc /\ job'[m][w].op = job[m][w].op /\ job'[m][w].code = code
             /\ \A n \in Managers, v \in Workers : n # m \/ v # w => job'[n][v] = job[n][v]
  BY <1>a, SetJobEffect
<1>b. UNCHANGED row => \A p \in Ops : /\ row'[p].status = row[p].status /\ row'[p].code = row[p].code
                                      /\ row'[p].completed = row[p].completed
  OBVIOUS
<1>2. CASE Load(m, w)
  <2>1. UNCHANGED <<row, created, ownerActive, applied, barred>> /\ job[m][w].pc = "claimed"
    BY <1>2 DEF Load, Step
  <2>2. applied[o] = 0 /\ job[m][w].code = "none"
    BY <1>0, <2>1 DEF LeaseInv, HolderEffect
  <2>3. CASE Step(m, w, "claimed", "loaded")
    <3>1. job'[m][w].pc = "loaded" /\ job'[m][w].op = job[m][w].op /\ job'[m][w].code = "none"
          /\ \A n \in Managers, v \in Workers : n # m \/ v # w => job'[n][v] = job[n][v]
      BY <2>2, <2>3, StepEffect
    <3>2. QED
      BY <1>b, <2>1, <2>2, <3>1, PlaceStep DEF RetryableCodes
  <2>4. CASE GiveUp(m, w, "OPERATION_LOAD_FAILED")
    <3>1. job'[m][w].pc = "failing" /\ job'[m][w].op = job[m][w].op
          /\ \A n \in Managers, v \in Workers : n # m \/ v # w => job'[n][v] = job[n][v]
      BY <1>a, <2>1, <2>4 DEF GiveUp
    <3>2. QED
      BY <1>b, <2>1, <2>2, <3>1, PlaceStep
  <2>5. QED
    BY <1>2, <2>3, <2>4 DEF Load
<1>3. CASE Authorize(m, w)
  <2>1. UNCHANGED <<row, created, ownerActive, applied, barred>> /\ job[m][w].pc = "loaded"
    BY <1>3 DEF Authorize
  <2>2. applied[o] = 0 /\ job[m][w].code = "none"
    BY <1>0, <2>1 DEF LeaseInv, HolderEffect
  <2>3. ASSUME NEW code, GiveUp(m, w, code) PROVE LeaseInv'
    <3>1. job'[m][w].pc = "failing" /\ job'[m][w].op = job[m][w].op
          /\ \A n \in Managers, v \in Workers : n # m \/ v # w => job'[n][v] = job[n][v]
      BY <1>a, <2>1, <2>3 DEF GiveUp
    <3>2. QED
      BY <1>b, <2>1, <2>2, <3>1, PlaceStep
  <2>4. CASE OwnerPasses(m) /\ Step(m, w, "loaded", "executing")
    <3>1. job'[m][w].pc = "executing" /\ job'[m][w].op = job[m][w].op /\ job'[m][w].code = "none"
          /\ \A n \in Managers, v \in Workers : n # m \/ v # w => job'[n][v] = job[n][v]
      BY <2>2, <2>4, StepEffect
    <3>2. barred = {}
      BY <2>4 DEF LeaseInv, BarredRows, OwnerPasses
    <3>3. QED
      BY <1>b, <2>1, <2>2, <3>1, <3>2, PlaceStep DEF RetryableCodes
  <2>5. QED
    BY <1>3, <2>3, <2>4 DEF Authorize
<1>c. ASSUME NEW stage, job[m][w].pc # "idle", ReportStage(m, o, stage)
      PROVE  \A p \in Ops : /\ row'[p].status = row[p].status /\ row'[p].code = row[p].code
                            /\ row'[p].completed = row[p].completed
  BY <1>0, <1>c DEF ReportStage, TypeOK, Row
<1>d. job[m][w].pc \in {"executing", "applying", "verifying", "returned"} => o \notin barred
  BY <1>0 DEF LeaseInv, BarredRows
<1>4. CASE ReportApplying(m, w)
  <2>1. UNCHANGED <<created, ownerActive, applied, barred>> /\ job[m][w].pc = "executing"
        /\ Step(m, w, "executing", "applying") /\ ReportStage(m, o, "applying")
    BY <1>4 DEF ReportApplying, Step
  <2>2. applied[o] = 0 /\ job[m][w].code = "none"
    BY <1>0, <2>1 DEF LeaseInv, HolderEffect
  <2>3. job'[m][w].pc = "applying" /\ job'[m][w].op = job[m][w].op /\ job'[m][w].code = "none"
        /\ \A n \in Managers, v \in Workers : n # m \/ v # w => job'[n][v] = job[n][v]
    BY <2>1, <2>2, StepEffect
  <2>4. QED
    BY <1>c, <1>d, <2>1, <2>2, <2>3, PlaceStep DEF RetryableCodes
<1>5. CASE ReportVerifying(m, w)
  <2>1. UNCHANGED <<created, ownerActive, applied, barred>> /\ job[m][w].pc = "verifying"
        /\ Step(m, w, "verifying", "returned") /\ ReportStage(m, o, "verifying")
    BY <1>5 DEF ReportVerifying, Step
  <2>2. applied[o] = 1 /\ job[m][w].code = "none"
    BY <1>0, <2>1 DEF LeaseInv, HolderEffect
  <2>3. job'[m][w].pc = "returned" /\ job'[m][w].op = job[m][w].op /\ job'[m][w].code = "none"
        /\ \A n \in Managers, v \in Workers : n # m \/ v # w => job'[n][v] = job[n][v]
    BY <2>1, <2>2, StepEffect
  <2>4. QED
    BY <1>c, <1>d, <2>1, <2>2, <2>3, PlaceStep DEF RetryableCodes
<1>6. CASE Apply(m, w)
  <2>1. UNCHANGED <<row, created, ownerActive, barred>> /\ job[m][w].pc = "applying"
    BY <1>6 DEF Apply
  <2>2. /\ applied[o] = 0 /\ o \in Ops /\ Holds(m, w, o) /\ o \notin barred
        /\ row[o].status \notin {"absent", "queued", "succeeded"} /\ ~IsRetryable(row[o])
    BY <1>0, <1>d, <2>1 DEF LeaseInv, HolderEffect, HeldRows, IsRetryable, RetryableCodes
  <2>3. PICK out \in Outcomes(row[o].kind) :
          /\ applied' = [applied EXCEPT ![o] = @ + out.changes]
          /\ SetJob(m, w, IF out.code = "none" THEN "verifying" ELSE "returned", o, out.code)
    BY <1>6 DEF Apply
  <2>4. /\ out.code = "none" => out.changes = 1
        /\ out.code \in RetryableCodes => out.changes = 0
        /\ out.changes \in {0, 1}
    BY <2>3 DEF Outcomes, RetryableCodes
  <2>5. /\ applied'[o] = out.changes
        /\ \A p \in Ops : p # o => applied'[p] = applied[p]
    BY <2>2, <2>3, <2>4 DEF TypeOK
  <2>6. /\ job'[m][w].pc = IF out.code = "none" THEN "verifying" ELSE "returned"
        /\ job'[m][w].op = o /\ job'[m][w].code = out.code
        /\ \A n \in Managers, v \in Workers : n # m \/ v # w => job'[n][v] = job[n][v]
    BY <2>3, SetJobEffect
  <2>7. \A n \in Managers, v \in Workers, p \in Ops : Holds(n, v, p)' <=> Holds(n, v, p)
    BY <2>1, <2>6 DEF Holds
  <2>8. \A n \in Managers, v \in Workers : Holds(n, v, o) => n = m /\ v = w
    BY <2>2 DEF LeaseInv, OneHolder
  <2>9. OneHolder' /\ HeldRows' /\ CompletedRows'
    BY <2>1, <2>7 DEF LeaseInv, OneHolder, HeldRows, CompletedRows, Held
  <2>10. NotStarted' /\ AppliedAtMostOnce' /\ SuccessIsReal' /\ BarredNeverApplied'
    <3>1. applied'[o] \in {0, 1}
      BY <2>4, <2>5
    <3>2. AppliedAtMostOnce'
      BY <2>5, <3>1 DEF LeaseInv, AppliedAtMostOnce
    <3>3. NotStarted'
      BY <2>1, <2>2, <2>5 DEF LeaseInv, NotStarted
    <3>4. SuccessIsReal'
      BY <2>1, <2>2, <2>5 DEF LeaseInv, SuccessIsReal
    <3>5. BarredNeverApplied'
      BY <2>1, <2>2, <2>5 DEF LeaseInv, BarredNeverApplied, TypeOK
    <3>6. QED
      BY <3>2, <3>3, <3>4, <3>5
  <2>11. RetryIsSafe'
    BY <2>1, <2>2, <2>5, <2>7 DEF LeaseInv, RetryIsSafe, Held, IsRetryable
  <2>12. HolderEffect'
    <3> SUFFICES ASSUME NEW n \in Managers, NEW v \in Workers, NEW p \in Ops, Holds(n, v, p)'
                 PROVE (/\ job[n][v].pc \in {"claimed", "loaded", "executing", "applying"} =>
                             job[n][v].code = "none" /\ applied[p] = 0
                        /\ job[n][v].pc = "verifying" => job[n][v].code = "none"
                        /\ job[n][v].pc \in {"verifying", "returned"} /\ job[n][v].code = "none" => applied[p] = 1
                        /\ job[n][v].code \in RetryableCodes => applied[p] = 0)'
      BY DEF HolderEffect
    <3>1. CASE n = m /\ v = w
      BY <2>4, <2>5, <2>6, <3>1 DEF Holds
    <3>2. CASE n # m \/ v # w
      BY <2>5, <2>6, <2>7, <2>8, <3>2 DEF LeaseInv, HolderEffect
    <3>3. QED
      BY <3>1, <3>2
  <2>13. BarredRows'
    <3>1. \A n \in Managers, v \in Workers, p \in Ops : p \in barred /\ Holds(n, v, p)' =>
            job'[n][v].pc \in {"claimed", "loaded", "failing"}
      BY <2>2, <2>6, <2>7 DEF LeaseInv, BarredRows, Holds
    <3>2. QED
      BY <2>1, <3>1 DEF LeaseInv, BarredRows
  <2>14. QED
    BY <2>9, <2>10, <2>11, <2>12, <2>13 DEF LeaseInv
<1>7. CASE Finish(m, w)
  <2>1. UNCHANGED <<created, ownerActive, applied, barred>> /\ job[m][w].pc = "returned"
    BY <1>7 DEF Finish
  <2>2. /\ o \in Ops /\ Holds(m, w, o) /\ o \notin barred /\ job[m][w].code \in Codes
        /\ job[m][w].code = "none" => applied[o] = 1
        /\ job[m][w].code \in RetryableCodes => applied[o] = 0
    BY <1>0, <1>d, <2>1 DEF LeaseInv, HolderEffect
  <2>3. CASE SetJob(m, w, "idle", NoOp, "none") /\ UNCHANGED row
    BY <2>1, <2>2, <2>3, ReleaseStep
  <2>4. CASE /\ job[m][w].code = "none" /\ row' = [row EXCEPT ![o] = SucceededRow(@)]
             /\ SetJob(m, w, "idle", NoOp, "none")
    BY <2>1, <2>2, <2>4, ReleaseStep
  <2>5. CASE job[m][w].code # "none" /\ UNCHANGED row /\ GiveUp(m, w, job[m][w].code)
    <3>1. job'[m][w].pc = "failing" /\ job'[m][w].op = job[m][w].op /\ job'[m][w].code = job[m][w].code
          /\ \A n \in Managers, v \in Workers : n # m \/ v # w => job'[n][v] = job[n][v]
      BY <1>a, <2>1, <2>5 DEF GiveUp
    <3>2. QED
      BY <1>b, <2>1, <2>2, <2>5, <3>1, PlaceStep
  <2>6. QED
    BY <1>7, <2>3, <2>4, <2>5 DEF Finish
<1>8. CASE WriteFailure(m, w)
  <2>1. UNCHANGED <<created, ownerActive, applied, barred>> /\ job[m][w].pc = "failing"
        /\ SetJob(m, w, "idle", NoOp, "none")
    BY <1>8 DEF WriteFailure
  <2>2. /\ o \in Ops /\ Holds(m, w, o) /\ job[m][w].code \in Codes
        /\ job[m][w].code \in RetryableCodes => applied[o] = 0
    BY <1>0, <2>1 DEF LeaseInv, HolderEffect
  <2>3. CASE UNCHANGED row
    BY <2>1, <2>2, <2>3, ReleaseStep
  <2>4. CASE row' = [row EXCEPT ![o] = FailedRow(@, job[m][w].code)]
    BY <2>1, <2>2, <2>4, ReleaseStep
  <2>5. QED
    BY <1>8, <2>3, <2>4 DEF WriteFailure
<1>9. QED
  BY <1>1, <1>2, <1>3, <1>4, <1>5, <1>6, <1>7, <1>8 DEF Work

\* A new operation is unclaimed and unapplied.
LEMMA CreateLease ==
  ASSUME TypeOK, LeaseInv, NEW m \in Managers, NEW r \in Row, Create(m, r),
         r.status = "queued", r.completed = "never"
  PROVE  LeaseInv'
<1> DEFINE o == created + 1
<1>1. o \in Ops /\ row[o].status = "absent"
  BY ConstantsAssumption DEF Create, TypeOK, Ops, LeaseInv, NotStarted
<1>2. applied[o] = 0 /\ o \notin barred
  BY <1>1 DEF LeaseInv, NotStarted, BarredRows, TypeOK, Ops
<1>3. ~Held(o)
  BY <1>1 DEF LeaseInv, HeldRows, Held
<1>4. row'[o] = r /\ \A p \in Ops : p # o => row'[p] = row[p]
  BY <1>1 DEF Create, TypeOK
<1>5. UNCHANGED <<job, ownerActive, applied>> /\ created' = o
      /\ barred' = IF ownerActive THEN barred ELSE barred \cup {o}
  BY DEF Create
<1>6. \A n \in Managers, v \in Workers, p \in Ops : Holds(n, v, p)' <=> Holds(n, v, p)
  BY <1>5 DEF Holds
<1>7. OneHolder' /\ HolderEffect'
  BY <1>5, <1>6 DEF LeaseInv, OneHolder, HolderEffect
<1>8. HeldRows'
  BY <1>3, <1>4, <1>6 DEF LeaseInv, HeldRows, Held
<1>9. CompletedRows' /\ RetryIsSafe'
  BY <1>4, <1>5, <1>6 DEF LeaseInv, CompletedRows, RetryIsSafe, IsRetryable, Held
<1>10. NotStarted'
  BY <1>1, <1>2, <1>4, <1>5 DEF LeaseInv, NotStarted, TypeOK, Ops
<1>11. AppliedAtMostOnce' /\ SuccessIsReal' /\ BarredNeverApplied'
  BY <1>2, <1>4, <1>5 DEF LeaseInv, AppliedAtMostOnce, SuccessIsReal, BarredNeverApplied
<1>12. BarredRows'
  <2>1. barred' # {} => ~ownerActive'
    BY <1>5 DEF LeaseInv, BarredRows
  <2>2. \A p \in Ops : p \in barred' => p <= created'
    BY <1>5 DEF LeaseInv, BarredRows, TypeOK, Ops
  <2>3. \A n \in Managers, v \in Workers, p \in Ops : p \in barred' /\ Holds(n, v, p)' =>
          job'[n][v].pc \in {"claimed", "loaded", "failing"}
    BY <1>3, <1>5, <1>6 DEF LeaseInv, BarredRows, Held
  <2>4. QED
    BY <2>1, <2>2, <2>3 DEF BarredRows
<1>13. QED
  BY <1>7, <1>8, <1>9, <1>10, <1>11, <1>12 DEF LeaseInv

\* recoverStale, in the dispatch loop or when a manager starts.
LEMMA RecoverLease ==
  ASSUME TypeOK, LeaseInv, row' = RecoverStale(row), UNCHANGED <<job, created, ownerActive, applied, barred>>
  PROVE  LeaseInv'
<1>1. ASSUME NEW o \in Ops PROVE Kept(o) \/ Recovered(o)
  <2>1. CASE row[o].status = "running" /\ row[o].stale
    <3>1. row[o] \in Row /\ row'[o] = FailedRow(row[o], "OPERATION_INTERRUPTED")
      BY <2>1 DEF RecoverStale, TypeOK
    <3>2. QED
      BY <2>1, <3>1 DEF FailedRow, Row, Recovered
  <2>2. CASE ~(row[o].status = "running" /\ row[o].stale)
    BY <2>2 DEF RecoverStale, Kept
  <2>3. QED
    BY <2>1, <2>2
<1>2. QED
  BY <1>1, TableStep

\* Every step keeps the lease invariant.
LEMMA NextLease == TypeOK /\ LeaseInv /\ [Next]_vars => LeaseInv'
<1> SUFFICES ASSUME TypeOK, LeaseInv, [Next]_vars PROVE LeaseInv'
  OBVIOUS
<1>1. ASSUME NEW m \in Managers, NEW kind \in Kinds, Submit(m, kind) PROVE LeaseInv'
  <2>1. NewRow(kind, NoOp) \in Row /\ NewRow(kind, NoOp).status = "queued" /\ NewRow(kind, NoOp).completed = "never"
    BY NewRowTypes DEF NewRow, AbsentRow
  <2>2. QED
    BY <1>1, <2>1, CreateLease DEF Submit
<1>2. ASSUME NEW m \in Managers, NEW o \in Ops, Retry(m, o) PROVE LeaseInv'
  <2>1. RetryRow(o) \in Row
    BY RetryRowType DEF TypeOK
  <2>2. RetryRow(o).status = "queued" /\ RetryRow(o).completed = "never"
    BY DEF RetryRow, TypeOK, Row
  <2>3. QED
    BY <1>2, <2>1, <2>2, CreateLease DEF Retry
<1>3. ASSUME NEW m \in Managers, NEW w \in Workers, Work(m, w) PROVE LeaseInv'
  BY <1>3, WorkLease
<1>4. ASSUME NEW m \in Managers, NEW w \in Workers, Heartbeat(m, w) PROVE LeaseInv'
  <2>1. \A o \in Ops : Kept(o)
    BY <1>4 DEF Heartbeat, Kept, TypeOK, Row
  <2>2. QED
    BY <1>4, <2>1, TableStep DEF Heartbeat
<1>5. ASSUME NEW m \in Managers, Dispatch(m) PROVE LeaseInv'
  BY <1>5, RecoverLease DEF Dispatch
<1>6. ASSUME NEW m \in Managers, CleanupCompleted(m) PROVE LeaseInv'
  <2>1. \A o \in Ops : Kept(o) \/ Purged(o)
    BY <1>6 DEF CleanupCompleted, Kept, Purged, IsExpired, AbsentRow
  <2>2. QED
    BY <1>6, <2>1, TableStep DEF CleanupCompleted
<1>7. ASSUME NEW m \in Managers, Start(m) PROVE LeaseInv'
  BY <1>7, RecoverLease DEF Start
<1>8. ASSUME NEW m \in Managers, Stop(m) \/ Exit(m) PROVE LeaseInv'
  <2>1. UNCHANGED <<row, job, created, ownerActive, applied, barred>>
    BY <1>8 DEF Stop, Exit
  <2>2. \A o \in Ops : Kept(o)
    BY <2>1 DEF Kept
  <2>3. QED
    BY <2>1, <2>2, TableStep
<1>9. ASSUME NEW m \in Managers, Crash(m) PROVE LeaseInv'
  <2>1. \A n \in Managers, v \in Workers : job'[n][v] = job[n][v] \/ job'[n][v].pc = "idle"
    BY <1>9 DEF Crash, Idle, TypeOK
  <2>2. \A o \in Ops : Kept(o)
    BY <1>9 DEF Crash, Kept
  <2>3. QED
    BY <1>9, <2>1, <2>2, TableStep DEF Crash
<1>10. ASSUME NEW o \in Ops, HeartbeatExpires(o) PROVE LeaseInv'
  <2>1. \A p \in Ops : Kept(p)
    BY <1>10 DEF HeartbeatExpires, Kept, TypeOK, Row
  <2>2. QED
    BY <1>10, <2>1, TableStep DEF HeartbeatExpires
<1>11. ASSUME NEW o \in Ops, RetentionExpires(o) PROVE LeaseInv'
  <2>1. \A p \in Ops : Kept(p) \/ Aged(p)
    BY <1>11 DEF RetentionExpires, Kept, Aged, TypeOK, Row
  <2>2. QED
    BY <1>11, <2>1, TableStep DEF RetentionExpires
<1>12. CASE DeactivateOwner
  <2>1. \A o \in Queued : ~Held(o) /\ applied[o] = 0 /\ o <= created /\ o \in Ops
    <3> SUFFICES ASSUME NEW o \in Queued PROVE ~Held(o) /\ applied[o] = 0 /\ o <= created /\ o \in Ops
      OBVIOUS
    <3>1. o \in Ops /\ row[o].status = "queued"
      BY DEF Queued
    <3>2. ~Held(o)
      BY <3>1 DEF LeaseInv, HeldRows, Held
    <3>3. applied[o] = 0 /\ ~(o > created)
      BY <3>1 DEF LeaseInv, NotStarted
    <3>4. QED
      BY <3>1, <3>2, <3>3, ConstantsAssumption DEF TypeOK, Ops
  <2>2. \A n \in Managers, v \in Workers, o \in Ops : Holds(n, v, o)' <=> Holds(n, v, o)
    BY <1>12 DEF DeactivateOwner, Holds
  <2>3. OneHolder' /\ HeldRows' /\ CompletedRows' /\ HolderEffect' /\ RetryIsSafe'
    BY <1>12, <2>2 DEF DeactivateOwner, LeaseInv, OneHolder, HeldRows, CompletedRows, HolderEffect,
       RetryIsSafe, IsRetryable, Held
  <2>4. NotStarted' /\ AppliedAtMostOnce' /\ SuccessIsReal' /\ BarredNeverApplied'
    BY <1>12, <2>1 DEF DeactivateOwner, LeaseInv, NotStarted, AppliedAtMostOnce, SuccessIsReal, BarredNeverApplied
  <2>5. BarredRows'
    <3>1. UNCHANGED <<job, created>> /\ ownerActive' = FALSE /\ barred' = Queued
      BY <1>12 DEF DeactivateOwner
    <3>2. \A o \in Ops : o \in barred' => o <= created'
      BY <2>1, <3>1 DEF LeaseInv, BarredRows
    <3>3. \A n \in Managers, v \in Workers, o \in Ops : o \in barred' /\ Holds(n, v, o)' =>
            job'[n][v].pc \in {"claimed", "loaded", "failing"}
      BY <2>1, <2>2, <3>1 DEF LeaseInv, BarredRows, Held
    <3>4. QED
      BY <3>1, <3>2, <3>3 DEF BarredRows
  <2>6. QED
    BY <2>3, <2>4, <2>5 DEF LeaseInv
<1>13. CASE ReactivateOwner
  <2>1. UNCHANGED <<row, job, created, applied>> /\ ownerActive' = TRUE /\ barred' = {}
    BY <1>13 DEF ReactivateOwner
  <2>2. \A n \in Managers, v \in Workers, o \in Ops : Holds(n, v, o)' <=> Holds(n, v, o)
    BY <2>1 DEF Holds
  <2>3. OneHolder' /\ HeldRows' /\ CompletedRows' /\ HolderEffect' /\ RetryIsSafe'
    BY <2>1, <2>2 DEF LeaseInv, OneHolder, HeldRows, CompletedRows, HolderEffect, RetryIsSafe, IsRetryable, Held
  <2>4. NotStarted' /\ AppliedAtMostOnce' /\ SuccessIsReal' /\ BarredNeverApplied' /\ BarredRows'
    BY <2>1 DEF LeaseInv, NotStarted, AppliedAtMostOnce, SuccessIsReal, BarredNeverApplied, BarredRows
  <2>5. QED
    BY <2>3, <2>4 DEF LeaseInv
<1>14. CASE UNCHANGED vars
  <2>1. \A o \in Ops : Kept(o)
    BY <1>14 DEF vars, Kept
  <2>2. QED
    BY <1>14, <2>1, TableStep DEF vars
<1>15. QED
  BY <1>1, <1>2, <1>3, <1>4, <1>5, <1>6, <1>7, <1>8, <1>9, <1>10, <1>11, <1>12, <1>13, <1>14 DEF Next

\* The empty table satisfies the lease invariant.
LEMMA InitLease == Init => LeaseInv
  BY DEF Init, Idle, AbsentRow, LeaseInv, OneHolder, HeldRows, NotStarted, HolderEffect, BarredRows, CompletedRows,
     AppliedAtMostOnce, RetryIsSafe, SuccessIsReal, BarredNeverApplied, Holds, Held, IsRetryable

\* The inductive invariant: leases are exclusive and tell what was applied.
THEOREM LeaseInvariant == Spec => []LeaseInv
<1>1. TypeOK /\ LeaseInv /\ [Next]_vars => LeaseInv'
  BY NextLease
<1>2. QED
  BY <1>1, InitLease, TypeCorrect, PTL DEF Spec

\* However often an id is queued, on however many replicas, whatever crashes,
\* stops, expires or fails: a change is applied at most once.
THEOREM AtMostOnce == Spec => []AppliedAtMostOnce
<1>1. LeaseInv => AppliedAtMostOnce
  BY DEF LeaseInv
<1>2. QED
  BY <1>1, LeaseInvariant, PTL

\* What may be retried has not been applied, and nobody can still apply it.
THEOREM RetrySafety == Spec => []RetryIsSafe
<1>1. LeaseInv => RetryIsSafe
  BY DEF LeaseInv
<1>2. QED
  BY <1>1, LeaseInvariant, PTL

\* What is shown as succeeded was applied, exactly once.
THEOREM SuccessSafety == Spec => []SuccessIsReal
<1>1. LeaseInv => SuccessIsReal
  BY DEF LeaseInv
<1>2. QED
  BY <1>1, LeaseInvariant, PTL

\* Retention deletes no operation that has not ended.
THEOREM RetentionSafety == Spec => OnlyEndedArePurged
<1>1. TypeOK /\ LeaseInv /\ [Next]_vars =>
        [\A o \in Ops : row[o].status \in {"queued", "running"} => row'[o].status # "purged"]_vars
  <2> SUFFICES ASSUME TypeOK, LeaseInv, Next, NEW o \in Ops, row[o].status \in {"queued", "running"}
               PROVE  row'[o].status # "purged"
    OBVIOUS
  <2>1. row[o] \in Row /\ row[o].completed # "old"
    BY DEF TypeOK, LeaseInv, CompletedRows
  <2>2. ASSUME NEW m \in Managers, NEW r, r.status = "queued", Create(m, r) PROVE row'[o].status # "purged"
    BY <2>2 DEF Create, TypeOK
  <2>3. ASSUME NEW m \in Managers, NEW kind \in Kinds, Submit(m, kind) PROVE row'[o].status # "purged"
    BY <2>2, <2>3 DEF Submit, NewRow, AbsentRow
  <2>4. ASSUME NEW m \in Managers, NEW p \in Ops, Retry(m, p) PROVE row'[o].status # "purged"
    <3>1. RetryRow(p).status = "queued"
      BY DEF RetryRow, TypeOK, Row
    <3>2. QED
      BY <2>2, <2>4, <3>1 DEF Retry
  <2>5. ASSUME NEW m \in Managers, NEW w \in Workers, Work(m, w) PROVE row'[o].status # "purged"
    <3>1. /\ ClaimedRow(m, row[o]).status = "running"
          /\ SucceededRow(row[o]).status = "succeeded"
          /\ \A code : FailedRow(row[o], code).status = "failed"
      BY <2>1 DEF ClaimedRow, SucceededRow, FailedRow, Row
    <3>2. \/ row'[o].status = row[o].status \/ row'[o] = ClaimedRow(m, row[o]) \/ row'[o] = SucceededRow(row[o])
          \/ row'[o] = FailedRow(row[o], job[m][w].code)
      <4>1. CASE Claim(m, w)
        BY <4>1 DEF Claim, TypeOK
      <4>2. CASE Load(m, w) \/ Authorize(m, w) \/ Apply(m, w)
        BY <4>2 DEF Load, Authorize, Apply
      <4>3. CASE ReportApplying(m, w) \/ ReportVerifying(m, w)
        <5>1. \E stage : ReportStage(m, job[m][w].op, stage)
          BY <4>3 DEF ReportApplying, ReportVerifying
        <5>2. QED
          <6> PICK stage : ReportStage(m, job[m][w].op, stage)
            BY <5>1
          <6>1. row'[o] = row[o] \/ row'[o] = [row[o] EXCEPT !.stage = stage]
            BY DEF ReportStage, TypeOK
          <6>2. QED
            BY <2>1, <6>1 DEF Row
      <4>4. CASE Finish(m, w)
        BY <4>4 DEF Finish, TypeOK
      <4>5. CASE WriteFailure(m, w)
        BY <4>5 DEF WriteFailure, TypeOK
      <4>6. QED
        BY <2>5, <4>1, <4>2, <4>3, <4>4, <4>5 DEF Work
    <3>3. QED
      BY <3>1, <3>2
  <2>6. ASSUME NEW m \in Managers, Dispatch(m) \/ Start(m) PROVE row'[o].status # "purged"
    <3>1. FailedRow(row[o], "OPERATION_INTERRUPTED").status = "failed"
      BY <2>1 DEF FailedRow, Row
    <3>2. QED
      BY <2>6, <3>1 DEF Dispatch, Start, RecoverStale
  <2>7. ASSUME NEW m \in Managers, CleanupCompleted(m) PROVE row'[o].status # "purged"
    BY <2>1, <2>7 DEF CleanupCompleted, IsExpired
  <2>8. ASSUME NEW m \in Managers, NEW w \in Workers, Heartbeat(m, w) PROVE row'[o].status # "purged"
    BY <2>1, <2>8 DEF Heartbeat, TypeOK, Row
  <2>9. ASSUME NEW p \in Ops, HeartbeatExpires(p) \/ RetentionExpires(p) PROVE row'[o].status # "purged"
    <3>1. CASE HeartbeatExpires(p)
      BY <2>1, <3>1 DEF HeartbeatExpires, TypeOK, Row
    <3>2. CASE RetentionExpires(p)
      BY <2>1, <3>2 DEF RetentionExpires, TypeOK, Row
    <3>3. QED
      BY <2>9, <3>1, <3>2
  <2>10. ASSUME NEW m \in Managers, Stop(m) \/ Exit(m) \/ Crash(m) PROVE row'[o].status # "purged"
    BY <2>10 DEF Stop, Exit, Crash
  <2>11. CASE DeactivateOwner \/ ReactivateOwner
    BY <2>11 DEF DeactivateOwner, ReactivateOwner
  <2>12. QED
    BY <2>3, <2>4, <2>5, <2>6, <2>7, <2>8, <2>9, <2>10, <2>11 DEF Next
<1>2. QED
  BY <1>1, LeaseInvariant, TypeCorrect, PTL DEF Spec, OnlyEndedArePurged

-----------------------------------------------------------------------------
(* With timely heartbeats no operation is recovered under its holder.      *)

\* What a row says of an operation that has not ended, and of one that has.
Settled(r) ==
  /\ r.status \in {"absent", "queued", "running"} => r.code = "none"
  /\ r.status \in {"succeeded", "failed"} => r.stage = "final" /\ r.worker = NoManager
  /\ r.status = "succeeded" => r.code = "none"

\* A held operation runs, and its heartbeat is fresh.
HoldersAreFresh == \A o \in Ops : Held(o) => row[o].status = "running" /\ ~row[o].stale

TimelyInv == Timely => HoldersAreFresh /\ \A o \in Ops : Settled(row[o])

\* The rows that the statements write.
LEMMA SettledRows ==
  ASSUME NEW r \in Row
  PROVE  /\ \A m \in Managers : Settled(r) /\ r.status = "queued" => Settled(ClaimedRow(m, r))
         /\ \A m \in Managers : ClaimedRow(m, r).status = "running" /\ ~ClaimedRow(m, r).stale
         /\ Settled(r) /\ r.status = "running" => Settled(SucceededRow(r))
         /\ \A code \in Codes : Settled(FailedRow(r, code))
         /\ \A b \in BOOLEAN : /\ Settled(r) => Settled([r EXCEPT !.stale = b])
                               /\ [r EXCEPT !.stale = b].status = r.status /\ [r EXCEPT !.stale = b].stale = b
         /\ \A s : /\ Settled(r) /\ r.status = "running" => Settled([r EXCEPT !.stage = s])
                   /\ [r EXCEPT !.stage = s].status = r.status /\ [r EXCEPT !.stage = s].stale = r.stale
         /\ \A s : /\ Settled(r) => Settled([r EXCEPT !.completed = s])
                   /\ [r EXCEPT !.completed = s].status = r.status /\ [r EXCEPT !.completed = s].stale = r.stale
<1>1. ASSUME NEW m \in Managers
      PROVE  /\ ClaimedRow(m, r).status = "running" /\ ~ClaimedRow(m, r).stale
             /\ Settled(r) /\ r.status = "queued" => Settled(ClaimedRow(m, r))
  BY DEF Row, ClaimedRow, Settled
<1>2. Settled(r) /\ r.status = "running" => Settled(SucceededRow(r))
  BY DEF Row, SucceededRow, Settled
<1>3. ASSUME NEW code \in Codes PROVE Settled(FailedRow(r, code))
  BY DEF Row, FailedRow, Settled
<1>4. ASSUME NEW b \in BOOLEAN
      PROVE  /\ Settled(r) => Settled([r EXCEPT !.stale = b])
             /\ [r EXCEPT !.stale = b].status = r.status /\ [r EXCEPT !.stale = b].stale = b
  BY DEF Row, Settled
<1>5. ASSUME NEW s
      PROVE  /\ Settled(r) /\ r.status = "running" => Settled([r EXCEPT !.stage = s])
             /\ [r EXCEPT !.stage = s].status = r.status /\ [r EXCEPT !.stage = s].stale = r.stale
  BY DEF Row, Settled
<1>6. ASSUME NEW s
      PROVE  /\ Settled(r) => Settled([r EXCEPT !.completed = s])
             /\ [r EXCEPT !.completed = s].status = r.status /\ [r EXCEPT !.completed = s].stale = r.stale
  BY DEF Row, Settled
<1>7. QED
  BY <1>1, <1>2, <1>3, <1>4, <1>5, <1>6

\* New rows are settled.
LEMMA SettledNewRows ==
  ASSUME row \in [Ops -> Row]
  PROVE  /\ \A kind \in Kinds : Settled(NewRow(kind, NoOp))
         /\ \A o \in Ops : Settled(RetryRow(o))
         /\ Settled([AbsentRow EXCEPT !.status = "purged"]) /\ Settled(AbsentRow)
<1>1. \A kind \in Kinds : Settled(NewRow(kind, NoOp))
  BY DEF NewRow, AbsentRow, Settled
<1>2. ASSUME NEW o \in Ops PROVE Settled(RetryRow(o))
  <2>1. row[o] \in Row
    OBVIOUS
  <2>2. RetryRow(o).status = "queued" /\ RetryRow(o).code = "none"
    BY <2>1 DEF RetryRow, Row
  <2>3. QED
    BY <2>2 DEF Settled
<1>3. Settled([AbsentRow EXCEPT !.status = "purged"]) /\ Settled(AbsentRow)
  BY DEF AbsentRow, Settled
<1>4. QED
  BY <1>1, <1>2, <1>3

LEMMA CreateTimely ==
  ASSUME TypeOK, LeaseInv, TimelyInv, NEW m \in Managers, NEW r \in Row, Create(m, r), Settled(r)
  PROVE  TimelyInv'
<1> DEFINE o == created + 1
<1>1. o \in Ops /\ row[o].status = "absent"
  BY ConstantsAssumption DEF Create, TypeOK, Ops, LeaseInv, NotStarted
<1>2. ~Held(o)
  BY <1>1 DEF LeaseInv, HeldRows, Held
<1>3. row'[o] = r /\ \A p \in Ops : p # o => row'[p] = row[p]
  BY <1>1 DEF Create, TypeOK
<1>4. \A p \in Ops : Held(p)' <=> Held(p)
  BY DEF Create, Held, Holds
<1> HIDE DEF o
<1>5. QED
  BY <1>2, <1>3, <1>4 DEF TimelyInv, HoldersAreFresh

\* A step in which workers hold no more than before: it keeps what the rows
\* of the operations still held say.
LEMMA NoClaimTimely ==
  ASSUME TimelyInv, \A o \in Ops : Held(o)' => Held(o),
         Timely => \A o \in Ops : /\ Settled(row[o]) => Settled(row'[o])
                                  /\ Held(o) /\ Held(o)' => row'[o].status = row[o].status /\ (row'[o].stale => row[o].stale)
  PROVE  TimelyInv'
BY DEF TimelyInv, HoldersAreFresh

LEMMA WorkTimely ==
  ASSUME TypeOK, LeaseInv, TimelyInv, NEW m \in Managers, NEW w \in Workers, Work(m, w)
  PROVE  TimelyInv'
<1> DEFINE o == job[m][w].op
<1>0. /\ job[m][w] \in Job /\ \A p \in Ops : row[p] \in Row
      /\ job[m][w].pc # "idle" => o \in Ops /\ Holds(m, w, o) /\ Held(o)
  BY DEF TypeOK, Holds, Held
<1>1. CASE Claim(m, w)
  <2> DEFINE q == Head(queue[m])
  <2>1. q \in Ops /\ job[m][w].pc = "idle"
    BY <1>1, HeadTailProperties DEF Claim, TypeOK
  <2>2. CASE UNCHANGED <<row, job>>
    BY <2>2 DEF TimelyInv, HoldersAreFresh, Held, Holds
  <2>3. CASE /\ row[q].status = "queued" /\ row' = [row EXCEPT ![q] = ClaimedRow(m, @)]
             /\ SetJob(m, w, "claimed", q, "none") \/ UNCHANGED job
    <3>1. row'[q] = ClaimedRow(m, row[q]) /\ \A p \in Ops : p # q => row'[p] = row[p]
      BY <2>1, <2>3 DEF TypeOK
    <3>2. \A p \in Ops : Held(p)' => Held(p) \/ p = q
      <4>1. CASE UNCHANGED job
        BY <4>1 DEF Held, Holds
      <4>2. CASE SetJob(m, w, "claimed", q, "none")
        BY <4>2, SetJobEffect DEF Held, Holds
      <4>3. QED
        BY <2>3, <4>1, <4>2
    <3>3. Settled(row[q]) => Settled(row'[q])
      BY <1>0, <2>1, <2>3, <3>1, SettledRows
    <3>4. row'[q].status = "running" /\ ~row'[q].stale
      BY <1>0, <2>1, <3>1, SettledRows
    <3>5. QED
      BY <3>1, <3>2, <3>3, <3>4 DEF TimelyInv, HoldersAreFresh
  <2>4. QED
    BY <1>1, <2>2, <2>3 DEF Claim, CanClaim
<1>2. CASE Load(m, w) \/ Authorize(m, w) \/ Apply(m, w)
  <2>1. job[m][w].pc # "idle" /\ UNCHANGED row
    BY <1>2 DEF Load, Step, Authorize, Apply
  <2>2. /\ job'[m][w].op = o
        /\ \A n \in Managers, v \in Workers : n # m \/ v # w => job'[n][v] = job[n][v]
    <3>1. ASSUME NEW pc, NEW code, SetJob(m, w, pc, o, code)
          PROVE  /\ job'[m][w].op = o
                 /\ \A n \in Managers, v \in Workers : n # m \/ v # w => job'[n][v] = job[n][v]
      BY <3>1, SetJobEffect
    <3>2. ASSUME NEW from, NEW to, Step(m, w, from, to)
          PROVE  /\ job'[m][w].op = o
                 /\ \A n \in Managers, v \in Workers : n # m \/ v # w => job'[n][v] = job[n][v]
      BY <3>2, StepEffect
    <3>3. QED
      BY <1>2, <3>1, <3>2 DEF Load, Authorize, Apply, GiveUp
  <2>3. \A p \in Ops : Held(p)' => Held(p)
    BY <2>1, <2>2 DEF Held, Holds
  <2>4. QED
    BY <2>1, <2>3, NoClaimTimely
<1>3. CASE ReportApplying(m, w) \/ ReportVerifying(m, w)
  <2>1. PICK stage : ReportStage(m, o, stage)
    BY <1>3 DEF ReportApplying, ReportVerifying
  <2>2. PICK from \in {"executing", "verifying"}, to \in {"applying", "returned"} : Step(m, w, from, to)
    BY <1>3 DEF ReportApplying, ReportVerifying
  <2>3. /\ job[m][w].pc # "idle" /\ job'[m][w].op = o
        /\ \A n \in Managers, v \in Workers : n # m \/ v # w => job'[n][v] = job[n][v]
    BY <2>2, StepEffect
  <2>4. \A p \in Ops : Held(p)' => Held(p)
    BY <2>3 DEF Held, Holds
  <2>5. CASE UNCHANGED row
    BY <2>4, <2>5, NoClaimTimely
  <2>6. CASE row' = [row EXCEPT ![o].stage = stage]
    <3>1. o \in Ops /\ Held(o)
      BY <1>0, <2>3
    <3>2. row'[o] = [row[o] EXCEPT !.stage = stage] /\ \A p \in Ops : p # o => row'[p] = row[p]
      BY <2>6, <3>1 DEF TypeOK
    <3>3. Timely => row[o].status = "running"
      BY <3>1 DEF TimelyInv, HoldersAreFresh
    <3>a. row[o] \in Row
      BY <1>0, <3>1
    <3> HIDE DEF o
    <3>4. /\ Timely /\ Settled(row[o]) => Settled(row'[o])
          /\ row'[o].status = row[o].status /\ row'[o].stale = row[o].stale
      <4>1. /\ Settled(row[o]) /\ row[o].status = "running" => Settled([row[o] EXCEPT !.stage = stage])
            /\ [row[o] EXCEPT !.stage = stage].status = row[o].status
            /\ [row[o] EXCEPT !.stage = stage].stale = row[o].stale
        BY <3>a, SettledRows
      <4>2. QED
        BY <3>2, <3>3, <4>1
    <3>5. QED
      BY <2>4, <3>2, <3>4, NoClaimTimely
  <2>7. QED
    BY <2>1, <2>5, <2>6 DEF ReportStage
<1>4. CASE (Finish(m, w) \/ WriteFailure(m, w)) /\ SetJob(m, w, "idle", NoOp, "none")
  <2>1. /\ job[m][w].pc # "idle" /\ job'[m][w].pc = "idle"
        /\ \A n \in Managers, v \in Workers : n # m \/ v # w => job'[n][v] = job[n][v]
    BY <1>4, SetJobEffect DEF Finish, WriteFailure
  <2>2. o \in Ops /\ Held(o) /\ \A p \in Ops : Held(p)' => Held(p) /\ p # o
    <3>1. o \in Ops /\ Holds(m, w, o) /\ Held(o)
      BY <1>0, <2>1
    <3>2. \A n \in Managers, v \in Workers, p \in Ops : Holds(n, v, p)' => Holds(n, v, p) /\ (n # m \/ v # w)
      BY <2>1 DEF Holds
    <3> HIDE DEF o
    <3>3. ASSUME NEW p \in Ops, Held(p)' PROVE Held(p) /\ p # o
      <4>1. PICK n \in Managers, v \in Workers : Holds(n, v, p) /\ (n # m \/ v # w)
        BY <3>2, <3>3 DEF Held
      <4>2. p # o
        BY <3>1, <4>1 DEF LeaseInv, OneHolder
      <4>3. QED
        BY <4>1, <4>2 DEF Held
    <3>4. QED
      BY <3>1, <3>3
  <2>3. \/ UNCHANGED row
        \/ row' = [row EXCEPT ![o] = SucceededRow(@)]
        \/ \E code \in Codes : row' = [row EXCEPT ![o] = FailedRow(@, code)]
    BY <1>0, <1>4 DEF Finish, WriteFailure, Job
  <2>4. CASE UNCHANGED row
    BY <2>2, <2>4, NoClaimTimely
  <2>5. CASE ~UNCHANGED row
    <3>1. \/ row'[o] = SucceededRow(row[o])
          \/ \E code \in Codes : row'[o] = FailedRow(row[o], code)
      BY <2>2, <2>3, <2>5 DEF TypeOK
    <3>2. \A p \in Ops : p # o => row'[p] = row[p]
      BY <2>2, <2>3 DEF TypeOK
    <3>3. Timely => row[o].status = "running"
      BY <2>2 DEF TimelyInv, HoldersAreFresh
    <3>a. row[o] \in Row
      BY <1>0, <2>2
    <3> HIDE DEF o
    <3>4. Timely /\ Settled(row[o]) => Settled(row'[o])
      BY <3>a, <3>1, <3>3, SettledRows
    <3>5. QED
      BY <2>2, <3>2, <3>4, NoClaimTimely
  <2>6. QED
    BY <2>4, <2>5
<1>5. CASE Finish(m, w) /\ ~SetJob(m, w, "idle", NoOp, "none")
  <2>1. job[m][w].pc # "idle" /\ UNCHANGED row /\ GiveUp(m, w, job[m][w].code)
    BY <1>5 DEF Finish
  <2>2. /\ job'[m][w].op = o
        /\ \A n \in Managers, v \in Workers : n # m \/ v # w => job'[n][v] = job[n][v]
    BY <2>1, SetJobEffect DEF GiveUp
  <2>3. \A p \in Ops : Held(p)' => Held(p)
    BY <2>1, <2>2 DEF Held, Holds
  <2>4. QED
    BY <2>1, <2>3, NoClaimTimely
<1>6. WriteFailure(m, w) => SetJob(m, w, "idle", NoOp, "none")
  BY DEF WriteFailure
<1>7. QED
  BY <1>1, <1>2, <1>3, <1>4, <1>5, <1>6 DEF Work

\* recoverStale finds no row of an operation that is held.
LEMMA RecoverTimely ==
  ASSUME TypeOK, TimelyInv, row' = RecoverStale(row), UNCHANGED job
  PROVE  TimelyInv'
<1>1. \A o \in Ops : Held(o)' <=> Held(o)
  BY DEF Held, Holds
<1>2. ASSUME NEW o \in Ops
      PROVE  /\ Settled(row[o]) => Settled(row'[o])
             /\ Timely /\ Held(o) => row'[o] = row[o]
  <2>1. row[o] \in Row /\ "OPERATION_INTERRUPTED" \in Codes
    BY DEF TypeOK, Codes
  <2>2. CASE row[o].status = "running" /\ row[o].stale
    <3>1. row'[o] = FailedRow(row[o], "OPERATION_INTERRUPTED")
      BY <2>2 DEF RecoverStale
    <3>2. QED
      BY <2>1, <2>2, <3>1, SettledRows DEF TimelyInv, HoldersAreFresh
  <2>3. CASE ~(row[o].status = "running" /\ row[o].stale)
    BY <2>3 DEF RecoverStale
  <2>4. QED
    BY <2>2, <2>3
<1>3. QED
  BY <1>1, <1>2, NoClaimTimely

\* Every step keeps the invariant of timely heartbeats.
LEMMA NextTimely == TypeOK /\ LeaseInv /\ TimelyInv /\ [Next]_vars => TimelyInv'
<1> SUFFICES ASSUME TypeOK, LeaseInv, TimelyInv, [Next]_vars PROVE TimelyInv'
  OBVIOUS
<1>1. ASSUME NEW m \in Managers, NEW kind \in Kinds, Submit(m, kind) PROVE TimelyInv'
  BY <1>1, NewRowTypes, SettledNewRows, CreateTimely DEF Submit, TypeOK
<1>2. ASSUME NEW m \in Managers, NEW o \in Ops, Retry(m, o) PROVE TimelyInv'
  BY <1>2, RetryRowType, SettledNewRows, CreateTimely DEF Retry, TypeOK
<1>3. ASSUME NEW m \in Managers, NEW w \in Workers, Work(m, w) PROVE TimelyInv'
  BY <1>3, WorkTimely
<1>4. ASSUME NEW m \in Managers, Dispatch(m) \/ Start(m) PROVE TimelyInv'
  BY <1>4, RecoverTimely DEF Dispatch, Start
<1>5. ASSUME NEW m \in Managers, Stop(m) \/ Exit(m) \/ Crash(m) PROVE TimelyInv'
  <2>1. UNCHANGED row /\ \A n \in Managers, v \in Workers : job'[n][v] = job[n][v] \/ job'[n][v].pc = "idle"
    BY <1>5 DEF Stop, Exit, Crash, Idle, TypeOK
  <2>2. \A o \in Ops : Held(o)' => Held(o)
    BY <2>1 DEF Held, Holds
  <2>3. QED
    BY <2>1, <2>2, NoClaimTimely
<1>6. ASSUME NEW m \in Managers, CleanupCompleted(m) PROVE TimelyInv'
  <2>1. \A o \in Ops : (Held(o)' <=> Held(o)) /\ (IsExpired(row[o]) => ~Held(o))
    BY <1>6 DEF CleanupCompleted, Held, Holds, IsExpired, LeaseInv, CompletedRows
  <2>2. \A o \in Ops : row'[o] = IF IsExpired(row[o]) THEN [AbsentRow EXCEPT !.status = "purged"] ELSE row[o]
    BY <1>6 DEF CleanupCompleted
  <2>3. Settled([AbsentRow EXCEPT !.status = "purged"])
    BY SettledNewRows DEF TypeOK
  <2>4. QED
    BY <2>1, <2>2, <2>3, NoClaimTimely
<1>7. ASSUME NEW m \in Managers, NEW w \in Workers, Heartbeat(m, w) PROVE TimelyInv'
  <2>1. UNCHANGED job /\ row' = [row EXCEPT ![job[m][w].op].stale = FALSE] /\ job[m][w].pc # "idle"
    BY <1>7 DEF Heartbeat
  <2>2. PICK o \in Ops : o = job[m][w].op
    BY <2>1 DEF TypeOK
  <2>3. row'[o] = [row[o] EXCEPT !.stale = FALSE] /\ row[o] \in Row /\ \A p \in Ops : p # o => row'[p] = row[p]
    BY <2>1, <2>2 DEF TypeOK
  <2>4. (Settled(row[o]) => Settled(row'[o])) /\ row'[o].status = row[o].status /\ ~row'[o].stale
    <3>1. PICK b \in BOOLEAN : b = FALSE
      OBVIOUS
    <3>2. row'[o] = [row[o] EXCEPT !.stale = b]
      BY <2>3, <3>1
    <3>3. /\ Settled(row[o]) => Settled([row[o] EXCEPT !.stale = b])
          /\ [row[o] EXCEPT !.stale = b].status = row[o].status /\ [row[o] EXCEPT !.stale = b].stale = b
      BY <2>3, SettledRows
    <3>4. QED
      BY <3>1, <3>2, <3>3
  <2>5. \A p \in Ops : Held(p)' <=> Held(p)
    BY <2>1 DEF Held, Holds
  <2>6. QED
    BY <2>3, <2>4, <2>5, NoClaimTimely
<1>8. ASSUME NEW o \in Ops, HeartbeatExpires(o) PROVE TimelyInv'
  <2>1. row'[o] = [row[o] EXCEPT !.stale = TRUE] /\ row[o] \in Row /\ \A p \in Ops : p # o => row'[p] = row[p]
    BY <1>8 DEF HeartbeatExpires, TypeOK
  <2>2. Settled(row[o]) => Settled(row'[o])
    <3>1. PICK b \in BOOLEAN : b = TRUE
      OBVIOUS
    <3>2. row'[o] = [row[o] EXCEPT !.stale = b]
      BY <2>1, <3>1
    <3>3. /\ Settled(row[o]) => Settled([row[o] EXCEPT !.stale = b])
          /\ [row[o] EXCEPT !.stale = b].status = row[o].status /\ [row[o] EXCEPT !.stale = b].stale = b
      BY <2>1, SettledRows
    <3>4. QED
      BY <3>1, <3>2, <3>3
  <2>3. (Timely => ~Held(o)) /\ \A p \in Ops : Held(p)' <=> Held(p)
    BY <1>8 DEF HeartbeatExpires, Held, Holds
  <2>4. QED
    BY <2>1, <2>2, <2>3, NoClaimTimely
<1>9. ASSUME NEW o \in Ops, RetentionExpires(o) PROVE TimelyInv'
  <2>1. row'[o] = [row[o] EXCEPT !.completed = "old"] /\ row[o] \in Row /\ \A p \in Ops : p # o => row'[p] = row[p]
    BY <1>9 DEF RetentionExpires, TypeOK
  <2>2. (Settled(row[o]) => Settled(row'[o])) /\ ~Held(o)
    <3>1. Settled(row[o]) => Settled([row[o] EXCEPT !.completed = "old"])
      BY <2>1, SettledRows
    <3>2. QED
      BY <1>9, <2>1, <3>1 DEF RetentionExpires
  <2>3. \A p \in Ops : Held(p)' <=> Held(p)
    BY <1>9 DEF RetentionExpires, Held, Holds
  <2>4. QED
    BY <2>1, <2>2, <2>3, NoClaimTimely
<1>10. CASE DeactivateOwner \/ ReactivateOwner \/ UNCHANGED vars
  BY <1>10 DEF DeactivateOwner, ReactivateOwner, vars, TimelyInv, HoldersAreFresh, Held, Holds
<1>11. QED
  BY <1>1, <1>2, <1>3, <1>4, <1>5, <1>6, <1>7, <1>8, <1>9, <1>10 DEF Next

LEMMA InitTimely == Init => TimelyInv
<1> SUFFICES ASSUME Init PROVE TimelyInv
  OBVIOUS
<1>1. \A o \in Ops : Settled(row[o])
  BY DEF Init, AbsentRow, Settled
<1>2. \A o \in Ops : ~Held(o)
  BY DEF Init, Idle, Held, Holds
<1>3. QED
  BY <1>1, <1>2 DEF TimelyInv, HoldersAreFresh

THEOREM TimelyInvariant == Spec => []TimelyInv
<1>1. TypeOK /\ LeaseInv /\ TimelyInv /\ [Next]_vars => TimelyInv'
  BY NextTimely
<1>2. QED
  BY <1>1, InitTimely, TypeCorrect, LeaseInvariant, PTL DEF Spec

\* As long as live workers keep their heartbeats fresh, "The server stopped
\* while this operation was running" is only said of an operation nobody runs.
THEOREM InterruptedIsTrue == ASSUME Timely PROVE Spec => []InterruptedMeansStopped
<1>1. TimelyInv => InterruptedMeansStopped
  BY DEF TimelyInv, HoldersAreFresh, InterruptedMeansStopped
<1>2. QED
  BY <1>1, TimelyInvariant, PTL

\* Under the same condition a row that shows the end of an operation is not
\* written by a late reporter or a second verdict.
THEOREM EndIsSettled == ASSUME Timely PROVE Spec => []TerminalIsSettled
<1>1. TimelyInv => TerminalIsSettled
  BY DEF TimelyInv, Settled, TerminalIsSettled
<1>2. QED
  BY <1>1, TimelyInvariant, PTL

-----------------------------------------------------------------------------
(* The life cycle that a submitter sees.  Each lemma maps steps whose      *)
(* effect on the status column and on the cluster it assumes.              *)

LEMMA MapSame ==
  ASSUME \A p \in Ops : row'[p].status = row[p].status, UNCHANGED applied
  PROVE  UNCHANGED Lifecycle!vars
BY DEF Lifecycle!vars

LEMMA MapMove ==
  ASSUME NEW o \in Ops, NEW from, NEW to, row[o].status \in from, row'[o].status = to,
         \A p \in Ops : p # o => row'[p].status = row[p].status, UNCHANGED applied
  PROVE  Lifecycle!Move(o, from, to)
BY DEF Lifecycle!Move

\* Recovery ends what it finds, for none or for several operations at once.
LEMMA MapRecover ==
  ASSUME TypeOK, row' = RecoverStale(row), UNCHANGED applied
  PROVE  Lifecycle!Next
<1>0. PICK S \in SUBSET Ops : S = {o \in Ops : row[o].status = "running" /\ row[o].stale}
  OBVIOUS
<1>1. ASSUME NEW o \in Ops PROVE row'[o].status = IF o \in S THEN "failed" ELSE row[o].status
  <2>1. row[o] \in Row
    BY DEF TypeOK
  <2>2. CASE o \in S
    BY <1>0, <2>1, <2>2 DEF RecoverStale, FailedRow, Row
  <2>3. CASE o \notin S
    BY <1>0, <2>3 DEF RecoverStale
  <2>4. QED
    BY <2>2, <2>3
<1>2. Lifecycle!Interrupted(S)
  BY <1>0, <1>1 DEF Lifecycle!Interrupted
<1>3. QED
  BY <1>2 DEF Lifecycle!Next

\* Retention deletes what has ended, for several operations at once.
LEMMA MapPurge ==
  ASSUME TypeOK, LeaseInv, NEW m \in Managers, CleanupCompleted(m)
  PROVE  Lifecycle!Next
<1>0. PICK S \in SUBSET Ops : S = {o \in Ops : IsExpired(row[o])}
  OBVIOUS
<1>1. \A o \in Ops : row'[o].status = IF o \in S THEN "purged" ELSE row[o].status
  BY <1>0 DEF CleanupCompleted, AbsentRow
<1>2. \A o \in S : row[o].status \in {"succeeded", "failed"}
  BY <1>0 DEF IsExpired, LeaseInv, CompletedRows
<1>3. Lifecycle!Purged(S)
  BY <1>1, <1>2 DEF Lifecycle!Purged, CleanupCompleted
<1>4. QED
  BY <1>3 DEF Lifecycle!Next

LEMMA MapCreate ==
  ASSUME TypeOK, LeaseInv, NEW m \in Managers, NEW r \in Row, Create(m, r), r.status = "queued"
  PROVE  Lifecycle!Next
<1>1. PICK o \in Ops : o = created + 1
  BY ConstantsAssumption DEF Create, TypeOK, Ops
<1>2. row[o].status = "absent"
  BY <1>1 DEF LeaseInv, NotStarted, TypeOK
<1>3. row'[o] = r /\ \A p \in Ops : p # o => row'[p] = row[p]
  BY <1>1 DEF Create, TypeOK
<1>4. Lifecycle!Move(o, {"absent"}, "queued")
  BY <1>2, <1>3, MapMove DEF Create
<1>5. QED
  BY <1>4 DEF Lifecycle!Accept, Lifecycle!Next

\* Who holds an operation may still apply it and end it.
LEMMA HeldIsOpen ==
  ASSUME LeaseInv, TimelyInv, NEW o \in Ops, Held(o)
  PROVE  row[o].status \in Lifecycle!Open
BY DEF LeaseInv, HeldRows, Held, TimelyInv, HoldersAreFresh, Lifecycle!Open

LEMMA MapWork ==
  ASSUME TypeOK, LeaseInv, TimelyInv, NEW m \in Managers, NEW w \in Workers, Work(m, w)
  PROVE  Lifecycle!Next \/ UNCHANGED Lifecycle!vars
<1>1. CASE Claim(m, w)
  <2>1. PICK o \in Ops : o = Head(queue[m])
    BY <1>1, HeadTailProperties DEF Claim, TypeOK
  <2>2. UNCHANGED applied
    BY <1>1 DEF Claim
  <2>3. CASE UNCHANGED row
    BY <2>2, <2>3, MapSame
  <2>4. CASE row[o].status = "queued" /\ row' = [row EXCEPT ![o] = ClaimedRow(m, @)]
    <3>1. row[o] \in Row /\ row'[o] = ClaimedRow(m, row[o]) /\ \A p \in Ops : p # o => row'[p] = row[p]
      BY <2>4 DEF TypeOK
    <3>2. row'[o].status = "running"
      BY <3>1, SettledRows
    <3>3. Lifecycle!Move(o, {"queued"}, "running")
      BY <2>2, <2>4, <3>1, <3>2, MapMove
    <3>4. QED
      BY <3>3 DEF Lifecycle!Begin, Lifecycle!Next
  <2>5. QED
    BY <1>1, <2>1, <2>3, <2>4 DEF Claim, CanClaim
<1>2. CASE Load(m, w) \/ Authorize(m, w)
  <2>1. UNCHANGED <<row, applied>>
    BY <1>2 DEF Load, Authorize
  <2>2. QED
    BY <2>1, MapSame
<1> SUFFICES ASSUME ~Claim(m, w), ~Load(m, w), ~Authorize(m, w)
             PROVE  Lifecycle!Next \/ UNCHANGED Lifecycle!vars
  BY <1>1, <1>2
<1>3. job[m][w].pc # "idle"
  BY DEF Work, ReportApplying, Step, Apply, ReportVerifying, Finish, WriteFailure
<1>4. PICK o \in Ops : o = job[m][w].op
  BY <1>3 DEF TypeOK
<1>5. Holds(m, w, o) /\ Held(o) /\ row[o] \in Row /\ row[o].status \in Lifecycle!Open
  BY <1>3, <1>4, HeldIsOpen DEF Holds, Held, TypeOK
<1>6. CASE ReportApplying(m, w) \/ ReportVerifying(m, w)
  <2>1. PICK stage : ReportStage(m, o, stage)
    BY <1>4, <1>6 DEF ReportApplying, ReportVerifying
  <2>2. UNCHANGED row \/ row' = [row EXCEPT ![o].stage = stage]
    BY <2>1 DEF ReportStage
  <2>3. \A p \in Ops : row'[p].status = row[p].status
    <3>1. CASE row' = [row EXCEPT ![o].stage = stage]
      <4>1. row'[o] = [row[o] EXCEPT !.stage = stage] /\ \A p \in Ops : p # o => row'[p] = row[p]
        BY <3>1 DEF TypeOK
      <4>2. row'[o].status = row[o].status
        BY <1>5, <4>1 DEF Row
      <4>3. QED
        BY <4>1, <4>2
    <3>2. QED
      BY <2>2, <3>1
  <2>4. UNCHANGED applied
    BY <1>6 DEF ReportApplying, ReportVerifying
  <2>5. QED
    BY <2>3, <2>4, MapSame
<1>7. CASE Apply(m, w)
  <2>1. applied[o] = 0 /\ UNCHANGED row
    BY <1>4, <1>5, <1>7 DEF Apply, LeaseInv, HolderEffect
  <2>2. PICK n \in {0, 1} : applied' = [applied EXCEPT ![o] = @ + n]
    <3>1. PICK out \in Outcomes(row[o].kind) : applied' = [applied EXCEPT ![o] = @ + out.changes]
      BY <1>4, <1>7 DEF Apply
    <3>2. out.changes \in {0, 1}
      BY <3>1 DEF Outcomes
    <3>3. QED
      BY <3>1, <3>2
  <2>3. CASE n = 0
    <3>1. applied' = applied
      BY <2>1, <2>2, <2>3 DEF TypeOK
    <3>2. QED
      BY <2>1, <3>1, MapSame
  <2>4. CASE n = 1
    <3>1. applied' = [applied EXCEPT ![o] = 1]
      BY <2>1, <2>2, <2>4 DEF TypeOK
    <3>2. Lifecycle!TakeEffect(o)
      BY <1>5, <2>1, <3>1 DEF Lifecycle!TakeEffect
    <3>3. QED
      BY <3>2 DEF Lifecycle!Next
  <2>5. QED
    BY <2>3, <2>4
<1>8. CASE Finish(m, w)
  <2>1. UNCHANGED applied
    BY <1>8 DEF Finish
  <2>2. CASE UNCHANGED row
    BY <2>1, <2>2, MapSame
  <2>3. CASE ~UNCHANGED row
    <3>1. job[m][w].pc = "returned" /\ job[m][w].code = "none" /\ row' = [row EXCEPT ![o] = SucceededRow(@)]
      BY <1>4, <1>8, <2>3 DEF Finish
    <3>2. applied[o] = 1
      BY <1>5, <3>1 DEF LeaseInv, HolderEffect
    <3>3. row'[o] = SucceededRow(row[o]) /\ \A p \in Ops : p # o => row'[p] = row[p]
      BY <3>1 DEF TypeOK
    <3>4. row'[o].status = "succeeded"
      BY <1>5, <3>3 DEF SucceededRow, Row
    <3>5. Lifecycle!Move(o, Lifecycle!Open, "succeeded")
      BY <1>5, <2>1, <3>3, <3>4, MapMove
    <3>6. QED
      BY <3>2, <3>5 DEF Lifecycle!Succeed, Lifecycle!Next
  <2>4. QED
    BY <2>2, <2>3
<1>9. CASE WriteFailure(m, w)
  <2>1. UNCHANGED applied
    BY <1>9 DEF WriteFailure
  <2>2. CASE UNCHANGED row
    BY <2>1, <2>2, MapSame
  <2>3. CASE ~UNCHANGED row
    <3>1. row' = [row EXCEPT ![o] = FailedRow(@, job[m][w].code)]
      BY <1>4, <1>9, <2>3 DEF WriteFailure
    <3>2. row'[o] = FailedRow(row[o], job[m][w].code) /\ \A p \in Ops : p # o => row'[p] = row[p]
      BY <3>1 DEF TypeOK
    <3>3. row'[o].status = "failed"
      BY <1>5, <3>2 DEF FailedRow, Row
    <3>4. CASE row[o].status = "running"
      <4>1. Lifecycle!Interrupted({o})
        BY <2>1, <3>2, <3>3, <3>4 DEF Lifecycle!Interrupted
      <4>2. QED
        BY <4>1 DEF Lifecycle!Next
    <3>5. CASE row[o].status = "failed"
      BY <2>1, <3>2, <3>3, <3>5, MapSame
    <3>6. QED
      BY <1>5, <3>4, <3>5 DEF LeaseInv, HeldRows
  <2>4. QED
    BY <2>2, <2>3
<1>10. QED
  BY <1>6, <1>7, <1>8, <1>9 DEF Work

\* Every step of the manager is a step of the life cycle or leaves it alone.
LEMMA MapNext ==
  TypeOK /\ LeaseInv /\ TimelyInv /\ [Next]_vars => [Lifecycle!Next]_(Lifecycle!vars)
<1> SUFFICES ASSUME TypeOK, LeaseInv, TimelyInv, [Next]_vars
             PROVE  Lifecycle!Next \/ UNCHANGED Lifecycle!vars
  OBVIOUS
<1>1. ASSUME NEW m \in Managers, NEW kind \in Kinds, Submit(m, kind) PROVE Lifecycle!Next
  <2>1. NewRow(kind, NoOp) \in Row /\ NewRow(kind, NoOp).status = "queued"
    BY NewRowTypes DEF NewRow, AbsentRow
  <2>2. QED
    BY <1>1, <2>1, MapCreate DEF Submit
<1>2. ASSUME NEW m \in Managers, NEW o \in Ops, Retry(m, o) PROVE Lifecycle!Next
  <2>1. RetryRow(o) \in Row /\ RetryRow(o).status = "queued"
    <3>1. RetryRow(o) \in Row
      BY RetryRowType DEF TypeOK
    <3>2. RetryRow(o).status = "queued"
      BY DEF RetryRow, TypeOK, Row
    <3>3. QED
      BY <3>1, <3>2
  <2>2. QED
    BY <1>2, <2>1, MapCreate DEF Retry
<1>3. ASSUME NEW m \in Managers, NEW w \in Workers, Work(m, w)
      PROVE  Lifecycle!Next \/ UNCHANGED Lifecycle!vars
  BY <1>3, MapWork
<1>4. ASSUME NEW m \in Managers, Dispatch(m) \/ Start(m) PROVE Lifecycle!Next
  BY <1>4, MapRecover DEF Dispatch, Start
<1>5. ASSUME NEW m \in Managers, CleanupCompleted(m) PROVE Lifecycle!Next
  BY <1>5, MapPurge
<1>6. ASSUME NEW m \in Managers, Stop(m) \/ Exit(m) \/ Crash(m) PROVE UNCHANGED Lifecycle!vars
  <2>1. UNCHANGED <<row, applied>>
    BY <1>6 DEF Stop, Exit, Crash
  <2>2. QED
    BY <2>1, MapSame
<1>7. ASSUME NEW m \in Managers, NEW w \in Workers, Heartbeat(m, w) PROVE UNCHANGED Lifecycle!vars
  <2>1. \A o \in Ops : row'[o].status = row[o].status
    BY <1>7 DEF Heartbeat, TypeOK, Row
  <2>2. QED
    BY <1>7, <2>1, MapSame DEF Heartbeat
<1>8. ASSUME NEW o \in Ops, HeartbeatExpires(o) \/ RetentionExpires(o) PROVE UNCHANGED Lifecycle!vars
  <2>1. UNCHANGED applied
    BY <1>8 DEF HeartbeatExpires, RetentionExpires
  <2>2. CASE HeartbeatExpires(o)
    <3>1. \A p \in Ops : row'[p].status = row[p].status
      BY <2>2 DEF HeartbeatExpires, TypeOK, Row
    <3>2. QED
      BY <2>1, <3>1, MapSame
  <2>3. CASE RetentionExpires(o)
    <3>1. \A p \in Ops : row'[p].status = row[p].status
      BY <2>3 DEF RetentionExpires, TypeOK, Row
    <3>2. QED
      BY <2>1, <3>1, MapSame
  <2>4. QED
    BY <1>8, <2>2, <2>3
<1>9. CASE DeactivateOwner \/ ReactivateOwner \/ UNCHANGED vars
  <2>1. UNCHANGED <<row, applied>>
    BY <1>9 DEF DeactivateOwner, ReactivateOwner, vars
  <2>2. QED
    BY <2>1, MapSame
<1>10. QED
  BY <1>1, <1>2, <1>3, <1>4, <1>5, <1>6, <1>7, <1>8, <1>9 DEF Next

LEMMA MapInit == Init => Lifecycle!Init
BY DEF Init, AbsentRow, Lifecycle!Init

\* OperationManager implements the life cycle of a persisted operation, with
\* late verdicts exactly if heartbeats may be delayed.
THEOREM Refinement == Spec => ImplementsLifecycle
<1>1. Init => Lifecycle!Init
  BY MapInit
<1>2. TypeOK /\ LeaseInv /\ TimelyInv /\ [Next]_vars => [Lifecycle!Next]_(Lifecycle!vars)
  BY MapNext
<1>3. QED
  BY <1>1, <1>2, TypeCorrect, LeaseInvariant, TimelyInvariant, PTL
     DEF Spec, ImplementsLifecycle, Lifecycle!Spec

-----------------------------------------------------------------------------
\* A verdict that a worker has written is changed by nobody: whoever could
\* still write about the operation does not hold it any more.
THEOREM VerdictSafety == Spec => VerdictIsFinal
<1>1. TypeOK /\ LeaseInv /\ [Next]_vars =>
        [\A o \in Ops :
           /\ row[o].status \in {"succeeded", "failed"}
           /\ row[o].code # "OPERATION_INTERRUPTED"
           => row'[o].status \in {row[o].status, "purged"} /\ row'[o].code \in {row[o].code, "none"}]_vars
  <2> DEFINE Final(o) == row[o].status \in {"succeeded", "failed"} /\ row[o].code # "OPERATION_INTERRUPTED"
             Stays(o) == row'[o].status \in {row[o].status, "purged"} /\ row'[o].code \in {row[o].code, "none"}
  <2> SUFFICES ASSUME TypeOK, LeaseInv, Next, NEW o \in Ops, Final(o)
               PROVE  Stays(o)
    OBVIOUS
  <2>1. row[o] \in Row /\ ~Held(o)
    BY DEF TypeOK, LeaseInv, HeldRows, Held
  <2>2. ASSUME row'[o] = row[o] \/ (row'[o].status = row[o].status /\ row'[o].code = row[o].code)
        PROVE  Stays(o)
    BY <2>2
  <2>3. ASSUME NEW m \in Managers, NEW r, Create(m, r) PROVE Stays(o)
    <3>1. row[o].status # "absent"
      OBVIOUS
    <3>2. o # created + 1
      BY <3>1 DEF LeaseInv, NotStarted, TypeOK, Ops
    <3>3. QED
      BY <2>3, <3>2 DEF Create, TypeOK
  <2>4. ASSUME NEW m \in Managers, NEW w \in Workers, Work(m, w) PROVE Stays(o)
    <3>1. CASE Claim(m, w)
      BY <3>1 DEF Claim, CanClaim, TypeOK
    <3>2. CASE Load(m, w) \/ Authorize(m, w) \/ Apply(m, w)
      BY <3>2 DEF Load, Authorize, Apply
    <3>3. CASE ReportApplying(m, w) \/ ReportVerifying(m, w) \/ Finish(m, w) \/ WriteFailure(m, w)
      <4>1. job[m][w].pc # "idle"
        BY <3>3 DEF ReportApplying, ReportVerifying, Step, Finish, WriteFailure
      <4>2. job[m][w].op # o
        BY <2>1, <4>1 DEF Held, Holds
      <4>3. row' = row \/ \E r : row' = [row EXCEPT ![job[m][w].op] = r]
        <5>1. CASE ReportApplying(m, w) \/ ReportVerifying(m, w)
          <6>1. PICK stage : ReportStage(m, job[m][w].op, stage)
            BY <5>1 DEF ReportApplying, ReportVerifying
          <6>2. QED
            BY <6>1 DEF ReportStage
        <5>2. CASE Finish(m, w) \/ WriteFailure(m, w)
          BY <5>2 DEF Finish, WriteFailure
        <5>3. QED
          BY <3>3, <5>1, <5>2
      <4>4. row'[o] = row[o]
        BY <4>2, <4>3 DEF TypeOK
      <4>5. QED
        BY <4>4
    <3>4. QED
      BY <2>4, <3>1, <3>2, <3>3 DEF Work
  <2>5. ASSUME NEW m \in Managers, Dispatch(m) \/ Start(m) PROVE Stays(o)
    <3>1. row'[o] = row[o]
      BY <2>5 DEF Dispatch, Start, RecoverStale
    <3>2. QED
      BY <3>1
  <2>6. ASSUME NEW m \in Managers, CleanupCompleted(m) PROVE Stays(o)
    BY <2>6 DEF CleanupCompleted, AbsentRow
  <2>7. ASSUME NEW m \in Managers, NEW w \in Workers, Heartbeat(m, w) PROVE Stays(o)
    <3>1. row'[o].status = row[o].status /\ row'[o].code = row[o].code
      BY <2>1, <2>7 DEF Heartbeat, TypeOK, Row
    <3>2. QED
      BY <3>1
  <2>8. ASSUME NEW p \in Ops, HeartbeatExpires(p) PROVE Stays(o)
    <3>1. row'[o].status = row[o].status /\ row'[o].code = row[o].code
      BY <2>1, <2>8 DEF HeartbeatExpires, TypeOK, Row
    <3>2. QED
      BY <3>1
  <2>9. ASSUME NEW p \in Ops, RetentionExpires(p) PROVE Stays(o)
    <3>1. row'[o].status = row[o].status /\ row'[o].code = row[o].code
      BY <2>1, <2>9 DEF RetentionExpires, TypeOK, Row
    <3>2. QED
      BY <3>1
  <2>10. ASSUME NEW m \in Managers, Stop(m) \/ Exit(m) \/ Crash(m) PROVE Stays(o)
    BY <2>10 DEF Stop, Exit, Crash
  <2>11. CASE DeactivateOwner \/ ReactivateOwner
    BY <2>11 DEF DeactivateOwner, ReactivateOwner
  <2>12. QED
    BY <2>3, <2>4, <2>5, <2>6, <2>7, <2>8, <2>9, <2>10, <2>11 DEF Next, Submit, Retry
<1>2. QED
  BY <1>1, LeaseInvariant, TypeCorrect, PTL DEF Spec, VerdictIsFinal
=============================================================================
