------------------------------- MODULE Server -------------------------------
(***************************************************************************)
(* The life of the server process and its audit log: the requests and the  *)
(* background jobs that write audit entries, the flush loop of             *)
(* internal/service/audit_service.go that stores them in batches, and the  *)
(* order in which cmd/kubevision/main.go stops the parts.                  *)
(*                                                                         *)
(* An entry is named by the request or the job that writes it.  What an    *)
(* entry holds (user, route, redacted body) is left out.                   *)
(***************************************************************************)
EXTENDS Naturals, Sequences, FiniteSets

CONSTANTS
  Requests,     \* HTTP requests with a write method
  Operations,   \* operations run by the operation manager's workers
  Checks,       \* chart checks run by the upgrade manager's loops
  ChannelSize,  \* auditChannelSize: entries waiting for the flush loop
  BatchSize     \* auditBatchSize: entries of one insert

Entries == Requests \cup Operations \cup Checks

ServerAssumption ==
  /\ ChannelSize \in Nat \ {0} /\ BatchSize \in Nat \ {0}
  /\ Requests \cap Operations = {} /\ Checks \cap (Requests \cup Operations) = {}
  /\ IsFiniteSet(Requests \cup Operations \cup Checks)

VARIABLES
  mode,     \* audit configuration: "async", "sync" or "off"
  main,     \* how far main has got in stopping the parts
  job,      \* Entries -> "idle", "running", "ended"
  logCh,    \* entries sent and not yet received
  batch,    \* the entries the flush loop holds
  loop,     \* flush loop: "off", "select", "flush", "final" or "done" (doneCh is closed)
  dbOpen,   \* sqlDB is open
  stored,   \* entries in the database
  excused,  \* entries dropped at a full channel or lost with a failed insert
  timely    \* entries recorded before main asked the audit service to stop

vars == <<mode, main, job, logCh, batch, loop, dbOpen, stored, excused, timely>>
auditVars == <<mode, logCh, batch, loop, stored, excused, timely>>

(* The stops of main, in their order.                                      *)
Stages == <<"serving", "cancelled", "operationsStopped", "eventsStopped",
            "auditAsked", "auditStopped", "httpStopped", "exited">>
Reached(stage) ==
  \E i, j \in DOMAIN Stages : i <= j /\ Stages[i] = stage /\ Stages[j] = main

Recorded(e) == job[e] = "ended"
Running(J) == {e \in J : job[e] = "running"}

TypeOK ==
  /\ mode \in {"async", "sync", "off"}
  /\ main \in {Stages[i] : i \in DOMAIN Stages}
  /\ job \in [Entries -> {"idle", "running", "ended"}]
  /\ logCh \in Seq(Entries) /\ Len(logCh) <= ChannelSize
  /\ batch \in Seq(Entries) /\ Len(batch) <= BatchSize + ChannelSize
  /\ loop \in {"off", "select", "flush", "final", "done"}
  /\ dbOpen \in BOOLEAN
  /\ stored \subseteq Entries /\ excused \subseteq Entries /\ timely \subseteq Entries

Init ==
  /\ mode \in {"async", "sync", "off"}
  /\ main = "serving"
  /\ job = [e \in Entries |-> "idle"]
  /\ logCh = <<>> /\ batch = <<>>
  /\ loop = IF mode = "off" THEN "off" ELSE "select"
  /\ dbOpen = TRUE
  /\ stored = {} /\ excused = {} /\ timely = {}

-----------------------------------------------------------------------------
(* Recording.                                                              *)

(* An insert into the database answers an error, or stores the entries.    *)
InsertOutcomes == IF dbOpen THEN BOOLEAN ELSE {FALSE}

Settle(entries, ok) ==
  /\ stored' = IF ok THEN stored \cup entries ELSE stored
  /\ excused' = IF ok THEN excused ELSE excused \cup entries

(* AuditService.Record: nothing when auditing is off, an insert of its own *)
(* when it is synchronous, else a send that never blocks.                  *)
Record(e) ==
  /\ timely' = IF Reached("auditAsked") \/ mode = "off" THEN timely ELSE timely \cup {e}
  /\ \/ mode = "off" /\ UNCHANGED <<logCh, stored, excused>>
     \/ mode = "sync" /\ UNCHANGED logCh /\ \E ok \in InsertOutcomes : Settle({e}, ok)
     \/ /\ mode = "async" /\ Len(logCh) < ChannelSize
        /\ logCh' = Append(logCh, e) /\ UNCHANGED <<stored, excused>>
     \/ /\ mode = "async" /\ Len(logCh) = ChannelSize
        /\ excused' = excused \cup {e} /\ UNCHANGED <<logCh, stored>>
  /\ UNCHANGED <<mode, batch, loop>>

(* Requests are accepted until the HTTP server stops listening; workers    *)
(* and upgrade loops start nothing once their context is cancelled.        *)
MayStart(e) ==
  IF e \in Requests THEN ~Reached("httpStopped") ELSE main = "serving"

StartJob(e) ==
  /\ job[e] = "idle" /\ MayStart(e)
  /\ job' = [job EXCEPT ![e] = "running"]
  /\ UNCHANGED <<main, dbOpen, auditVars>>

(* The handler behind AuditMiddleware returned, or the executor recorded   *)
(* its outcome: the work is over and its entry is recorded.                *)
EndJob(e) ==
  /\ job[e] = "running" /\ main # "exited"
  /\ job' = [job EXCEPT ![e] = "ended"]
  /\ Record(e)
  /\ UNCHANGED <<main, dbOpen>>

-----------------------------------------------------------------------------
(* flushLoop.                                                              *)

Alive == main # "exited"

Receive ==
  /\ Alive /\ loop = "select" /\ logCh # <<>>
  /\ batch' = Append(batch, Head(logCh)) /\ logCh' = Tail(logCh)
  /\ loop' = IF Len(batch') >= BatchSize THEN "flush" ELSE "select"
  /\ UNCHANGED <<mode, main, job, dbOpen, stored, excused, timely>>

Tick ==
  /\ Alive /\ loop = "select" /\ batch # <<>>
  /\ loop' = "flush"
  /\ UNCHANGED <<mode, main, job, logCh, batch, dbOpen, stored, excused, timely>>

(* stopCh is closed: what the channel holds joins the batch, which is      *)
(* flushed a last time.                                                    *)
\* a slip: what waits in the channel is left
NotDrained == [batch |-> batch, logCh |-> logCh]
Drained == [batch |-> batch \o logCh, logCh |-> <<>>]
StopLoop ==
  /\ Alive /\ loop = "select" /\ Reached("auditAsked")
  /\ batch' = Drained.batch /\ logCh' = Drained.logCh
  /\ loop' = "final"
  /\ UNCHANGED <<mode, main, job, dbOpen, stored, excused, timely>>

(* BatchCreate returns: the batch is emptied whether it was stored or not. *)
\* a slip: the final flush does not return
AlwaysSelects == "select"
AfterFlush == IF loop = "final" THEN "done" ELSE "select"
Flushed ==
  /\ Alive /\ loop \in {"flush", "final"}
  /\ \E ok \in InsertOutcomes : Settle({batch[i] : i \in DOMAIN batch}, ok)
  /\ batch' = <<>>
  /\ loop' = AfterFlush
  /\ UNCHANGED <<mode, main, job, logCh, dbOpen, timely>>

-----------------------------------------------------------------------------
(* main.                                                                   *)

(* operationManager.Stop waits for its workers; the upgrade manager's Stop *)
(* only cancels its loops.                                                 *)
AwaitOperations == Running(Operations) = {}

(* auditService.Stop closes stopCh and waits for doneCh.                   *)
\* a slip: doneCh is not waited for
NoWait == TRUE
AwaitAudit == loop = "done"

(* srv.Shutdown stops listening and waits for the handlers, for five       *)
(* seconds at most: with the deadline it returns whatever still runs.      *)
Advance(from, to) == main = from /\ main' = to /\ UNCHANGED <<job, auditVars>>

Quit == Advance("serving", "cancelled") /\ UNCHANGED dbOpen
OperationsStopped ==
  Advance("cancelled", "operationsStopped") /\ AwaitOperations /\ UNCHANGED dbOpen
EventsStopped == Advance("operationsStopped", "eventsStopped") /\ UNCHANGED dbOpen
AskAudit ==
  /\ main = "eventsStopped"
  /\ main' = IF mode = "off" THEN "auditStopped" ELSE "auditAsked"
  /\ UNCHANGED <<job, dbOpen, auditVars>>
AuditStopped == Advance("auditAsked", "auditStopped") /\ AwaitAudit /\ UNCHANGED dbOpen
HTTPStopped == Advance("auditStopped", "httpStopped") /\ UNCHANGED dbOpen
CloseDB == Advance("httpStopped", "exited") /\ dbOpen' = FALSE

MainStep == OperationsStopped \/ EventsStopped \/ AskAudit \/ AuditStopped
            \/ HTTPStopped \/ CloseDB
LoopStep == Receive \/ Tick \/ StopLoop \/ Flushed

Next == (\E e \in Entries : StartJob(e) \/ EndJob(e)) \/ LoopStep \/ Quit \/ MainStep

(* main runs; an operation ends because its context is cancelled and every *)
(* call it makes has a deadline; an insert ends within ten seconds; Go's   *)
(* select does not pass over a ready case for ever.                        *)
Fairness ==
  /\ WF_vars(MainStep)
  /\ WF_vars(Flushed)
  /\ SF_vars(StopLoop)
  /\ \A e \in Operations : WF_vars(EndJob(e))

Spec == Init /\ [][Next]_vars
FairSpec == Spec /\ Fairness

-----------------------------------------------------------------------------
(* Once the flush loop has ended, an entry recorded before the audit       *)
(* service was asked to stop is in the database, unless the channel was    *)
(* full or the insert failed; when the process exits this holds of every   *)
(* operation's entry, since the operations are stopped before the audit    *)
(* service is.                                                             *)
StoppedMeansStored ==
  /\ loop = "done" => timely \subseteq stored \cup excused
  /\ main = "exited" /\ mode # "off" =>
       \A e \in Operations : Recorded(e) => e \in stored \cup excused

(* The flush loop never writes to a database that main has closed.         *)
FlushesWhileOpen == loop \in {"flush", "final"} => dbOpen

(* A shutdown ends: no stop waits for a part that will not answer.         *)
ShutdownEnds == (main = "cancelled") ~> (main = "exited")

(* docs/admin-guide/audit-logging.md: every write operation is recorded.   *)
(* Once the process has exited in good order, the entry of every request   *)
(* that was answered is stored, dropped at a full channel or lost with a   *)
(* failed insert.                                                          *)
EveryWriteIsRecorded ==
  main = "exited" /\ mode # "off" =>
    \A e \in Requests : Recorded(e) => e \in stored \cup excused
=============================================================================
