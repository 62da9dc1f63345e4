--------------------------- MODULE InformerManager ---------------------------
(***************************************************************************)
(* The informer manager of one replica,                                    *)
(* src/internal/kubernetes/informer/informer.go, and the cached reads of   *)
(* src/internal/repository/k8s_repo.go.  A cluster has at most one current *)
(* runtime; a replaced runtime's goroutine, which waits for the first      *)
(* synchronisation, may outlive it.  Whoever starts or stops a cluster     *)
(* holds the mutex of the cluster service; StopAll, at shutdown, does not. *)
(***************************************************************************)
EXTENDS Naturals

CONSTANTS
  Clusters,
  MaxStarts,   \* bound: calls of StartForCluster
  MaxOutages   \* bound: outages of API servers

ASSUME ConstantsAssumption == MaxStarts \in Nat /\ MaxOutages \in Nat

VARIABLES
  clusters,    \* m.clusters: the current runtime of each cluster, or None
  runtime,     \* the runtimes, numbered as they are created
  starts,      \* calls of StartForCluster so far
  reachable,   \* clusters whose API server answers
  outages,
  answer       \* the last answer of a cached read

vars == <<clusters, runtime, starts, reachable, outages, answer>>

-----------------------------------------------------------------------------
Runtimes == 1..MaxStarts
None     == 0

\* phase: in the map, then started; filled: its caches hold what the cluster
\* has; waiter: the goroutine that waits for the first synchronisation.
Runtime == [cluster: Clusters, phase: {"unused", "stored", "started"}, cancelled: BOOLEAN,
            filled: BOOLEAN, waiter: {"none", "waiting", "marking", "done"},
            synced: BOOLEAN, lastSync: {"never", "recent", "old"}]

NewRuntime(c) == [cluster |-> c, phase |-> "stored", cancelled |-> FALSE, filled |-> FALSE,
                  waiter |-> "none", synced |-> FALSE, lastSync |-> "never"]
Unused(c) == [NewRuntime(c) EXCEPT !.phase = "unused"]

\* found: the read found what the cluster has.
Answer   == [source: {"none", "cache", "error"}, stale: BOOLEAN, found: BOOLEAN]
NoAnswer == [source |-> "none", stale |-> FALSE, found |-> FALSE]

Init ==
  /\ clusters = [c \in Clusters |-> None]
  /\ runtime \in {[r \in Runtimes |-> Unused(c)] : c \in Clusters}
  /\ starts = 0
  /\ reachable = Clusters
  /\ outages = 0
  /\ answer = NoAnswer

CancelNone(R) == runtime  \* mutant: the context is not cancelled
Cancel(R) == [r \in Runtimes |-> IF r \in R THEN [runtime[r] EXCEPT !.cancelled = TRUE] ELSE runtime[r]]

\* The mutex of the cluster service: no StartForCluster is under way.
MutexFree == \A r \in Runtimes : runtime[r].phase # "stored"

-----------------------------------------------------------------------------
\* StartForCluster, under the manager's lock: the new runtime replaces the old.
StoreRuntime(c) ==
  LET r == starts + 1 IN
  /\ MutexFree
  /\ starts < MaxStarts /\ starts' = r
  /\ clusters' = [clusters EXCEPT ![c] = r]
  /\ runtime' = [Cancel({clusters[c]}) EXCEPT ![r] = NewRuntime(c)]
  /\ UNCHANGED <<reachable, outages, answer>>

\* factory.Start, and the goroutine that waits.
StartFactory(r) ==
  /\ runtime[r].phase = "stored"
  /\ runtime' = [runtime EXCEPT ![r].phase = "started", ![r].waiter = "waiting"]
  /\ UNCHANGED <<clusters, starts, reachable, outages, answer>>

\* WaitForCacheSync returns when every cache is filled or the context is done.
WaitOverTimed(r) == TRUE  \* mutant: the wait has a timeout that counts as success
WaitOver(r) == runtime[r].filled \/ runtime[r].cancelled

\* summarizeCacheSync: a cancelled wait is no synchronisation.
WaitReturns(r) ==
  /\ runtime[r].waiter = "waiting" /\ WaitOver(r)
  /\ runtime' = [runtime EXCEPT ![r].waiter = IF runtime[r].cancelled THEN "done" ELSE "marking"]
  /\ UNCHANGED <<clusters, starts, reachable, outages, answer>>

MarkedUntimed(rt) == [rt EXCEPT !.synced = TRUE]      \* mutant: no time
MarkedTimeOnly(rt) == [rt EXCEPT !.lastSync = "recent"] \* mutant: no flag
Marked(rt) == [rt EXCEPT !.synced = TRUE, !.lastSync = "recent"]

\* Under the lock again: the runtime is looked up by the cluster's id.
MarkSynced(r) ==
  LET current == clusters[runtime[r].cluster] IN
  /\ runtime[r].waiter = "marking"
  /\ runtime' = [s \in Runtimes |->
       LET rt == IF s = current THEN Marked(runtime[s]) ELSE runtime[s]
       IN  IF s = r THEN [rt EXCEPT !.waiter = "done"] ELSE rt]
  /\ UNCHANGED <<clusters, starts, reachable, outages, answer>>

StopForCluster(c) ==
  /\ MutexFree
  /\ clusters[c] # None
  /\ clusters' = [clusters EXCEPT ![c] = None]
  /\ runtime' = Cancel({clusters[c]})
  /\ UNCHANGED <<starts, reachable, outages, answer>>

StopAll ==
  /\ clusters' = [c \in Clusters |-> None]
  /\ runtime' = Cancel({clusters[c] : c \in Clusters})
  /\ UNCHANGED <<starts, reachable, outages, answer>>

-----------------------------------------------------------------------------
(* Reads of a cached kind.  A read without a runtime is an error, and so   *)
(* is a Get that finds nothing: neither falls back to the API server.      *)

IsStale(rt) == ~rt.synced \/ rt.lastSync = "old"

Failure == [NoAnswer EXCEPT !.source = "error"]
Hit(r, stale) == [source |-> "cache", stale |-> stale, found |-> runtime[r].filled]

List(c) ==
  LET r == clusters[c] IN
  /\ answer' = IF r = None THEN Failure ELSE Hit(r, IsStale(runtime[r]))
  /\ UNCHANGED <<clusters, runtime, starts, reachable, outages>>

Get(c) ==
  LET r == clusters[c] IN
  /\ answer' = IF r # None /\ runtime[r].filled THEN Hit(r, FALSE) ELSE Failure
  /\ UNCHANGED <<clusters, runtime, starts, reachable, outages>>

-----------------------------------------------------------------------------
(* The environment: client-go fills the caches of a running factory as     *)
(* soon as the API server answers, five minutes pass, API servers fail.    *)

Fill(r) ==
  /\ runtime[r].phase = "started" /\ ~runtime[r].cancelled /\ ~runtime[r].filled
  /\ runtime[r].cluster \in reachable
  /\ runtime' = [runtime EXCEPT ![r].filled = TRUE]
  /\ UNCHANGED <<clusters, starts, reachable, outages, answer>>

FiveMinutesPass(r) ==
  /\ runtime[r].lastSync = "recent"
  /\ runtime' = [runtime EXCEPT ![r].lastSync = "old"]
  /\ UNCHANGED <<clusters, starts, reachable, outages, answer>>

Outage(c) ==
  /\ c \in reachable
  /\ outages < MaxOutages /\ outages' = outages + 1
  /\ reachable' = reachable \ {c}
  /\ UNCHANGED <<clusters, runtime, starts, answer>>

Recovery(c) ==
  /\ c \notin reachable
  /\ reachable' = reachable \cup {c}
  /\ UNCHANGED <<clusters, runtime, starts, outages, answer>>

-----------------------------------------------------------------------------
Next ==
  \/ \E c \in Clusters : \/ StoreRuntime(c) \/ StopForCluster(c)
                         \/ List(c) \/ Get(c) \/ Outage(c) \/ Recovery(c)
  \/ \E r \in Runtimes : \/ StartFactory(r) \/ WaitReturns(r) \/ MarkSynced(r)
                         \/ Fill(r) \/ FiveMinutesPass(r)
  \/ StopAll

Spec == Init /\ [][Next]_vars

\* The caller and the waiting goroutines run; client-go retries its lists
\* until they succeed.  Nobody has to start, stop, read or fail.
Fairness ==
  \A r \in Runtimes : /\ WF_vars(StartFactory(r)) /\ WF_vars(Fill(r))
                      /\ WF_vars(WaitReturns(r)) /\ WF_vars(MarkSynced(r))

FairSpec == Spec /\ Fairness

-----------------------------------------------------------------------------
TypeOK ==
  /\ clusters \in [Clusters -> Runtimes \cup {None}]
  /\ runtime \in [Runtimes -> Runtime]
  /\ \A r \in Runtimes : (runtime[r].lastSync # "never") <=> runtime[r].synced
  /\ starts \in 0..MaxStarts
  /\ reachable \in SUBSET Clusters
  /\ outages \in 0..MaxOutages
  /\ answer \in Answer

IsCurrent(r) == runtime[r].phase # "unused" /\ clusters[runtime[r].cluster] = r

\* No watch outlives its place in the map, and no cancelled runtime is read:
\* what runs is what StopForCluster and StopAll can still reach.
RunsIffCurrent ==
  \A r \in Runtimes : runtime[r].phase # "unused" => (IsCurrent(r) <=> ~runtime[r].cancelled)

\* The flags can be wrong in one way only: an earlier runtime of the same
\* cluster was filled, and replaced before its goroutine took the lock.
WrongFlagNeedsReplacement ==
  \A r \in Runtimes : runtime[r].synced /\ ~runtime[r].filled =>
    \E s \in Runtimes : /\ s < r /\ runtime[s].cluster = runtime[r].cluster
                        /\ runtime[s].filled /\ runtime[s].cancelled

\* A current runtime of a reachable cluster becomes synchronised.
CurrentGetsSynced ==
  \A r \in Runtimes : <>[](IsCurrent(r) /\ runtime[r].cluster \in reachable) => <>[](runtime[r].synced)

\* The goroutine of a stopped or replaced runtime ends, even if the API
\* server never answers.
StoppedWaiterEnds ==
  \A r \in Runtimes : (runtime[r].phase # "unused" /\ ~IsCurrent(r)) ~> (runtime[r].waiter = "done")

\* informer.go:198: the flag says whether the data "may be outdated (no sync
\* in the last 5 minutes or cache never synced)".
FreshIsComplete == answer.source = "cache" /\ ~answer.stale => answer.found

=============================================================================
