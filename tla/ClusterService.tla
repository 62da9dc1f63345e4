--------------------------- MODULE ClusterService ---------------------------
(***************************************************************************)
(* Registered clusters, src/internal/service/cluster_service.go with the   *)
(* connection map of kubernetes/cluster.  A cluster is a row of a table    *)
(* that all replicas share, and in each replica a connection and a running *)
(* informer.  Add, Remove, InitClusters and RefreshHealth hold the         *)
(* replica's mutex throughout, so a replica has one job at a time; the     *)
(* replicas interleave at every statement and every probe.                 *)
(***************************************************************************)
EXTENDS Naturals, FiniteSets

CONSTANTS
  Replicas,     \* replicas of the server
  Names,        \* names of clusters; a name is also the id of its connection
  MaxAdds,      \* bound: Add requests
  MaxFaults,    \* bound: failing statements and reconnections
  MaxCrashes,   \* bound: restarts of replicas
  MaxOutages    \* bound: outages of API servers

ASSUME ConstantsAssumption ==
  MaxAdds \in Nat /\ MaxFaults \in Nat /\ MaxCrashes \in Nat /\ MaxOutages \in Nat

VARIABLES
  rows,         \* the clusters table
  client,       \* each replica's connections: the credentials in use, or None
  informer,     \* each replica's running informers: credentials, or None
  job,          \* what the holder of each replica's mutex is doing
  adds,         \* Add requests so far
  reachable,    \* credentials whose API server answers
  probed,       \* credentials that answered a probe (history)
  saved,        \* credentials that were ever in the table (history)
  faults, crashes, outages

vars == <<rows, client, informer, job, adds, reachable, probed, saved, faults, crashes, outages>>

-----------------------------------------------------------------------------
\* The k-th Add request brings credentials k; its row, if any, gets id k.
Ids  == 1..MaxAdds
None == 0

Rows  == [name: Names, id: Ids, status: {"healthy", "unhealthy"}]
NoRow == [name |-> None, id |-> None, status |-> "none"]

\* todo: the rows a health check has listed and not yet handled; row: the one
\* in hand; start: whether its informer is to be started; boot: InitClusters.
Job == [pc: {"down", "idle", "adding", "creating", "removing", "refreshing", "saving"},
        row: Rows \cup {NoRow}, todo: SUBSET Rows, start: BOOLEAN, boot: BOOLEAN]

Idle == [pc |-> "idle", row |-> NoRow, todo |-> {}, start |-> FALSE, boot |-> FALSE]
Down == [Idle EXCEPT !.pc = "down"]

Init ==
  /\ rows = {}
  /\ client = [r \in Replicas |-> [n \in Names |-> None]]
  /\ informer = client
  /\ job = [r \in Replicas |-> Down]
  /\ adds = 0
  /\ reachable = Ids
  /\ probed = {} /\ saved = {}
  /\ faults = 0 /\ crashes = 0 /\ outages = 0

Ok    == UNCHANGED faults
Fault == faults < MaxFaults /\ faults' = faults + 1

\* A statement that turns the table into t; if it fails it may have committed.
Succeeds(t) == rows' = t /\ Ok
Fails(t)    == rows' \in {rows, t} /\ Fault

TakenNever(row) == FALSE  \* mutant: no unique index on the name
Taken(row) == \E x \in rows : x.name = row.name /\ x.id # row.id

\* Save writes the whole row; it inserts a row that is not there any more.
SaveRow(t, row) == {x \in t : x.id # row.id} \cup {row}

Goto(r, pc) == job' = [job EXCEPT ![r].pc = pc]
Return(r)   == job' = [job EXCEPT ![r] = Idle]

Connect(r, n, k) == client' = [client EXCEPT ![r][n] = k]
Watch(r, n, k)   == informer' = [informer EXCEPT ![r][n] = k]

-----------------------------------------------------------------------------
(* Add: an error of the uniqueness check counts as "no such name".         *)

NewIdReused == Cardinality(rows) + 1  \* mutant: ids of deleted rows are given again
NewId == adds + 1

AddConnect(r, n) ==
  LET k == NewId IN
  /\ job[r].pc = "idle" /\ adds < MaxAdds
  /\ \/ Ok /\ \A x \in rows : x.name # n
     \/ Fault
  /\ adds' = adds + 1
  /\ Connect(r, n, k)
  /\ job' = [job EXCEPT ![r] = [Idle EXCEPT !.pc = "adding",
                                  !.row = [name |-> n, id |-> k, status |-> "healthy"]]]
  /\ UNCHANGED <<rows, informer, reachable, probed, saved, crashes, outages>>

DisconnectNever(r, n) == UNCHANGED client  \* mutant: no roll-back of the connection
Disconnect(r, n) == Connect(r, n, None)

AnswersAssumed(k) == TRUE  \* mutant: a timeout of the probe is accepted
Answers(k) == k \in reachable

AddProbe(r) ==
  LET row == job[r].row IN
  /\ job[r].pc = "adding"
  /\ probed' = probed \cup ({row.id} \cap reachable)
  /\ \/ Answers(row.id) /\ Goto(r, "creating") /\ UNCHANGED client /\ Ok
     \/ ((~Answers(row.id) /\ Ok) \/ Fault) /\ Return(r) /\ Disconnect(r, row.name)
  /\ UNCHANGED <<rows, informer, adds, reachable, saved, crashes, outages>>

\* Create, then the informer; a failed Create rolls the connection back.
AddCreate(r) ==
  LET row == job[r].row
      t   == rows \cup {row}
  IN
  /\ job[r].pc = "creating"
  /\ \/ ~Taken(row) /\ Succeeds(t) /\ Watch(r, row.name, client[r][row.name]) /\ UNCHANGED client
     \/ /\ \/ Taken(row) /\ Succeeds(rows)
           \/ Taken(row) /\ Fails(rows)
           \/ ~Taken(row) /\ Fails(t)
        /\ Disconnect(r, row.name) /\ UNCHANGED informer
  /\ saved' = saved \cup {x.id : x \in rows'}
  /\ Return(r)
  /\ UNCHANGED <<adds, reachable, probed, crashes, outages>>

-----------------------------------------------------------------------------
(* Remove: the local state goes first, then the row.                       *)

StopForClusterNot(r, n) == UNCHANGED informer  \* mutant: the informer is left running
StopForCluster(r, n) == Watch(r, n, None)

RemoveStop(r, x) ==
  /\ job[r].pc = "idle"
  /\ StopForCluster(r, x.name)
  /\ Connect(r, x.name, None)
  /\ job' = [job EXCEPT ![r] = [Idle EXCEPT !.pc = "removing", !.row = x]]
  /\ UNCHANGED <<rows, adds, reachable, probed, saved, faults, crashes, outages>>

RemainingByName(row) == {x \in rows : x.name # row.name}  \* mutant: DELETE ... WHERE name
Remaining(row) == {x \in rows : x.id # row.id}

RemoveDelete(r) ==
  LET t == Remaining(job[r].row) IN
  /\ job[r].pc = "removing"
  /\ Succeeds(t) \/ Fails(t)
  /\ Return(r)
  /\ UNCHANGED <<client, informer, adds, reachable, probed, saved, crashes, outages>>

-----------------------------------------------------------------------------
(* RefreshHealth, every thirty seconds, and InitClusters, when a replica   *)
(* starts: list the rows, then probe them one by one.                      *)

List(r, boot) ==
  job' = [job EXCEPT ![r] = IF rows = {} THEN Idle
                            ELSE [Idle EXCEPT !.pc = "refreshing", !.todo = rows, !.boot = boot]]

RefreshHealth(r) ==
  /\ job[r].pc = "idle"
  /\ List(r, FALSE)
  /\ UNCHANGED <<rows, client, informer, adds, reachable, probed, saved, faults, crashes, outages>>

InitClusters(r) ==
  /\ job[r].pc = "down"
  /\ (List(r, TRUE) /\ Ok) \/ (Return(r) /\ Fault)
  /\ UNCHANGED <<rows, client, informer, adds, reachable, probed, saved, crashes, outages>>

NextRow(r, c) ==
  LET rest == job[r].todo \ {c} IN
  job' = [job EXCEPT ![r] = IF rest = {} THEN Idle
                            ELSE [@ EXCEPT !.pc = "refreshing", !.row = NoRow, !.todo = rest, !.start = FALSE]]

ThenSave(r, c, status, start) ==
  job' = [job EXCEPT ![r].pc = "saving", ![r].row = [c EXCEPT !.status = status], ![r].start = start,
                     ![r].todo = @ \ {c}]

MustConnect(r, c) == job[r].boot \/ client[r][c.name] = None

\* The credentials are rejected or cannot be read: only InitClusters records it.
ReconnectFails(r, c) ==
  /\ job[r].pc = "refreshing" /\ c \in job[r].todo
  /\ MustConnect(r, c)
  /\ IF job[r].boot THEN ThenSave(r, c, "unhealthy", FALSE) ELSE NextRow(r, c)
  /\ Fault
  /\ UNCHANGED <<rows, client, informer, adds, reachable, probed, saved, crashes, outages>>

\* mutant: only a new connection gets an informer
NeedsStartNew(r, c) == MustConnect(r, c)
\* A row listed as healthy is taken to have its informer already.
NeedsStart(r, c) == MustConnect(r, c) \/ c.status # "healthy"

\* The connection is restored if there is none, then probed; upgraded says
\* whether the API server reports another version than the row.
ProbeRow(r, c, upgraded) ==
  LET k  == IF MustConnect(r, c) THEN c.id ELSE client[r][c.name]
      up == Answers(k)
  IN
  /\ job[r].pc = "refreshing" /\ c \in job[r].todo
  /\ Connect(r, c.name, k)
  /\ probed' = probed \cup ({k} \cap reachable)
  /\ \/ /\ ~up /\ StopForCluster(r, c.name)
        /\ IF c.status = "unhealthy" THEN NextRow(r, c) ELSE ThenSave(r, c, "unhealthy", FALSE)
     \/ /\ up /\ (c.status # "healthy" \/ upgraded)
        /\ UNCHANGED informer
        /\ ThenSave(r, c, "healthy", NeedsStart(r, c))
     \/ /\ up /\ c.status = "healthy" /\ ~upgraded
        /\ IF NeedsStart(r, c) THEN Watch(r, c.name, k) ELSE UNCHANGED informer
        /\ NextRow(r, c)
  /\ UNCHANGED <<rows, adds, reachable, saved, faults, crashes, outages>>

\* The status is written first: if that fails the informer is not started.
SaveStatus(r) ==
  LET row == job[r].row
      t   == SaveRow(rows, row)
  IN
  /\ job[r].pc = "saving"
  /\ \/ /\ ~Taken(row) /\ Succeeds(t)
        /\ IF job[r].start THEN Watch(r, row.name, client[r][row.name]) ELSE UNCHANGED informer
     \/ /\ (Taken(row) /\ Succeeds(rows)) \/ (Taken(row) /\ Fails(rows)) \/ (~Taken(row) /\ Fails(t))
        /\ UNCHANGED informer
  /\ NextRow(r, row)
  /\ UNCHANGED <<client, adds, reachable, probed, saved, crashes, outages>>

-----------------------------------------------------------------------------
(* The environment.                                                        *)

Crash(r) ==
  /\ job[r].pc # "down"
  /\ crashes < MaxCrashes /\ crashes' = crashes + 1
  /\ job' = [job EXCEPT ![r] = Down]
  /\ client' = [client EXCEPT ![r] = [n \in Names |-> None]]
  /\ informer' = [informer EXCEPT ![r] = [n \in Names |-> None]]
  /\ UNCHANGED <<rows, adds, reachable, probed, saved, faults, outages>>

Outage(k) ==
  /\ k \in reachable
  /\ outages < MaxOutages /\ outages' = outages + 1
  /\ reachable' = reachable \ {k}
  /\ UNCHANGED <<rows, client, informer, job, adds, probed, saved, faults, crashes>>

Recovery(k) ==
  /\ k \notin reachable
  /\ reachable' = reachable \cup {k}
  /\ UNCHANGED <<rows, client, informer, job, adds, probed, saved, faults, crashes, outages>>

-----------------------------------------------------------------------------
Refresh(r) ==
  \/ \E c \in job[r].todo : ReconnectFails(r, c) \/ \E upgraded \in BOOLEAN : ProbeRow(r, c, upgraded)
  \/ SaveStatus(r)

Proceed(r) == AddProbe(r) \/ AddCreate(r) \/ RemoveDelete(r) \/ Refresh(r)

Next ==
  \/ \E r \in Replicas : \/ \E n \in Names : AddConnect(r, n)
                         \/ \E x \in rows : RemoveStop(r, x)
                         \/ RefreshHealth(r) \/ InitClusters(r) \/ Crash(r)
                         \/ Proceed(r)
  \/ \E k \in Ids : Outage(k) \/ Recovery(k)

Spec == Init /\ [][Next]_vars

\* Requests and probes have timeouts, the health ticker fires, and the
\* deployment restarts a replica; nothing is assumed of the API servers.
Fairness ==
  \A r \in Replicas : WF_vars(Proceed(r)) /\ WF_vars(RefreshHealth(r)) /\ WF_vars(InitClusters(r))

FairSpec == Spec /\ Fairness

-----------------------------------------------------------------------------
TypeOK ==
  /\ rows \in SUBSET Rows
  /\ \A x, y \in rows : x.name = y.name \/ x.id = y.id => x = y
  /\ client \in [Replicas -> [Names -> Ids \cup {None}]]
  /\ informer \in [Replicas -> [Names -> Ids \cup {None}]]
  /\ job \in [Replicas -> Job]
  /\ adds \in 0..MaxAdds
  /\ reachable \in SUBSET Ids /\ probed \in SUBSET Ids /\ saved \in SUBSET Ids
  /\ faults \in 0..MaxFaults /\ crashes \in 0..MaxCrashes /\ outages \in 0..MaxOutages

\* Credentials that never reached the table are used by the Add request that
\* brought them and by nothing else: every failure of Add is rolled back.
NothingUnsavedIsUsed ==
  \A r \in Replicas, n \in Names :
    /\ informer[r][n] \in saved \cup {None}
    /\ \/ client[r][n] \in saved \cup {None}
       \/ job[r].pc \in {"adding", "creating"} /\ client[r][n] = job[r].row.id

\* cluster-management.md: "KubeVision validates connectivity before saving".
ValidatedBeforeSaved == saved \subseteq probed

\* With one replica: between jobs, what is connected and watched is what the
\* table says, and a cluster shown as unhealthy is not watched.
ConnectedAsSaved ==
  \A r \in Replicas, n \in Names : job[r].pc = "idle" =>
    /\ client[r][n] # None => \E x \in rows : x.name = n /\ x.id = client[r][n]
    /\ informer[r][n] # None =>
         \E x \in rows : x.name = n /\ x.id = informer[r][n] /\ x.status = "healthy"

\* A health check never drops a registration, whatever it found in the table.
OnlyRemoveDeletes ==
  [][\A x \in rows : (\A y \in rows' : y.id # x.id) =>
       \E r \in Replicas : job[r].pc = "removing" /\ job[r].row.id = x.id]_vars

\* cluster_repo.go:45: deletion is final and "removes encrypted credentials".
RemovedStaysRemoved ==
  [][\A y \in rows' : y.id \in saved => \E x \in rows : x.id = y.id]_vars

\* cluster-management.md:61, green dot: "API Server reachable, informer
\* connected".  A cluster that stays so becomes watched in every replica.
GreenMeansConnected ==
  \A r \in Replicas, n \in Names, k \in Ids :
    <>[]([name |-> n, id |-> k, status |-> "healthy"] \in rows /\ k \in reachable)
      => []<>(informer[r][n] = k)

\* With one replica the dot is right as long as no statement fails.
GreenWithoutFaults == [](faults = 0) => GreenMeansConnected

\* With one replica: cluster-management.md:46, "Removing a cluster deletes all
\* cached resource data": nothing keeps watching it.
RemovedIsForgotten ==
  \A r \in Replicas, n \in Names, k \in Ids :
    <>[](k \in saved /\ \A x \in rows : x.id # k) => []<>(informer[r][n] # k)

=============================================================================
