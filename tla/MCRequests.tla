----------------------------- MODULE MCRequests -----------------------------
(***************************************************************************)
(* What serves HTTP requests, for TLC: the assistant's approvals, the audit *)
(* log and the shutdown, access control, and the objects of a cluster.     *)
(* The four keep separate state, so a behaviour exercises one of them,     *)
(* chosen at first, and leaves the others as they were.                    *)
(***************************************************************************)
EXTENDS AISessions, TLC

CONSTANTS
  Requests, Operations, Checks, ChannelSize, BatchSize,
  Edits,
  Clients, Deployments, Pods, Cached, Values, Batches, MaxVersion, MaxRevision, MaxClock

VARIABLES
  part,
  mode, main, job, logCh, batch, loop, dbOpen, stored, excused, timely,
  permissions, answer,
  objects, sets, version, cache, clusterExists, clock, ask

Log == INSTANCE Server
Rights == INSTANCE Access
Objects == INSTANCE Resources

ASSUME ServerAssumption == Log!ServerAssumption
ASSUME ResourcesAssumption == Objects!ResourcesAssumption

logVars == <<mode, main, job, logCh, batch, loop, dbOpen, stored, excused, timely>>
rightsVars == <<permissions, answer>>
objectVars == <<objects, sets, version, cache, clusterExists, clock, ask>>
all == <<part, vars, logVars, rightsVars, objectVars>>

Parts == {"assistant", "log", "rights", "objects"}

MCInit ==
  /\ part \in Parts
  /\ Init /\ Log!Init /\ Rights!Init /\ Objects!Init
  /\ part # "log" => mode = "off"

MCNext ==
  /\ UNCHANGED part
  /\ \/ part = "assistant" /\ Next /\ UNCHANGED <<logVars, rightsVars, objectVars>>
     \/ part = "log" /\ Log!Next /\ UNCHANGED <<vars, rightsVars, objectVars>>
     \/ part = "rights" /\ Rights!Next /\ UNCHANGED <<vars, logVars, objectVars>>
     \/ part = "objects" /\ Objects!Next /\ UNCHANGED <<vars, logVars, rightsVars>>

(* Server's fairness, where the log is the part that runs.                 *)
LogFairness ==
  /\ WF_logVars(part = "log" /\ Log!MainStep)
  /\ WF_logVars(part = "log" /\ Log!Flushed)
  /\ SF_logVars(part = "log" /\ Log!StopLoop)
  /\ \A e \in Operations : WF_logVars(part = "log" /\ Log!EndJob(e))

MCSpec == MCInit /\ [][MCNext]_all /\ LogFairness

MCEdits == {{<<"pods", "create">>}, {<<"*", "get">>, <<"test", "create">>},
            {<<"*", "list">>, <<"pods", "list">>},
            {<<"*", "update">>, <<"resources", "delete">>, <<"pods", "*">>}}
MCBatches == {<<"web", "pod">>}

(* Server: what was recorded before the audit service was asked to stop is *)
(* stored when its loop has ended, and a shutdown ends.                    *)
StoppedMeansStored == Log!StoppedMeansStored
ShutdownEnds == Log!ShutdownEnds

(* Access: the assistant changes nothing its user may not change by HTTP.  *)
WritesWithinOwnPrivileges == Rights!WritesWithinOwnPrivileges

(* Resources: no update is lost.                                           *)
NoUnseenOverwrite == Objects!NoUnseenOverwrite
=============================================================================
