------------------------ MODULE ClusterService_proofs ------------------------
(***************************************************************************)
(* What the replicas of the server keep true of the clusters they share,   *)
(* for any number of replicas, clusters, failing statements and crashes:   *)
(* a name and an id stand for one row, nothing is saved unvalidated, and   *)
(* no replica uses credentials that were never saved.                      *)
(***************************************************************************)
EXTENDS ClusterService, TLAPS

Adding(r) == job[r].pc \in {"adding", "creating"}

\* The job of r: what a health check has listed was saved, what an Add brings
\* was not, and is validated when it is created.
JobKnown(r) ==
  /\ \A x \in job[r].todo : x.id \in saved
  /\ job[r].pc \in {"removing", "saving"} => job[r].row \in Rows /\ job[r].row.id \in saved
  /\ Adding(r) => job[r].row \in Rows /\ job[r].row.id \notin saved /\ job[r].row.id <= adds
  /\ job[r].pc = "creating" => job[r].row.id \in probed

\* What r uses was saved, apart from the connection of an Add in progress.
Used(r) ==
  \A n \in Names :
    /\ informer[r][n] \in saved \cup {None}
    /\ \/ client[r][n] \in saved \cup {None}
       \/ Adding(r) /\ n = job[r].row.name /\ client[r][n] = job[r].row.id

\* Every Add request has its own id.
AddsAreNew ==
  \A r, s \in Replicas : Adding(r) /\ Adding(s) /\ r # s => job[r].row.id # job[s].row.id

RowsAreSaved ==
  /\ \A x \in rows : x.id \in saved
  /\ \A k \in saved : k <= adds

IInv ==
  /\ TypeOK /\ RowsAreSaved /\ AddsAreNew /\ ValidatedBeforeSaved
  /\ \A r \in Replicas : JobKnown(r) /\ Used(r)

-----------------------------------------------------------------------------
(* Jobs.                                                                   *)

LEMMA JobTypes == Idle \in Job /\ Down \in Job /\ NoRow \in Rows \cup {NoRow}
<1>1. Idle \in Job
  BY DEF Idle, Job, NoRow
<1>2. Down \in Job
  BY DEF Down, Idle, Job, NoRow
<1>3. QED
  BY <1>1, <1>2

\* A replica's job is replaced.
LEMMA JobStep ==
  ASSUME TypeOK, NEW r \in Replicas, NEW j \in Job, job' = [job EXCEPT ![r] = j]
  PROVE  job' \in [Replicas -> Job] /\ job'[r] = j /\ \A s \in Replicas : s # r => job'[s] = job[s]
BY DEF TypeOK

LEMMA GotoStep ==
  ASSUME TypeOK, NEW r \in Replicas, NEW pc \in {"creating"}, Goto(r, pc)
  PROVE  /\ job' \in [Replicas -> Job] /\ \A s \in Replicas : s # r => job'[s] = job[s]
         /\ job'[r].pc = pc /\ job'[r].row = job[r].row /\ job'[r].todo = job[r].todo
<1> DEFINE j == [job[r] EXCEPT !.pc = pc]
<1>1. job[r] \in Job
  BY DEF TypeOK
<1>2. j \in Job /\ j.pc = pc /\ j.row = job[r].row /\ j.todo = job[r].todo
  BY <1>1 DEF Job
<1>3. job' = [job EXCEPT ![r] = j]
  BY DEF Goto
<1> HIDE DEF j
<1>4. QED
  BY <1>2, <1>3, JobStep

LEMMA ReturnStep ==
  ASSUME TypeOK, NEW r \in Replicas, Return(r)
  PROVE  /\ job' \in [Replicas -> Job] /\ \A s \in Replicas : s # r => job'[s] = job[s]
         /\ job'[r].pc = "idle" /\ job'[r].todo = {}
<1>1. job' = [job EXCEPT ![r] = Idle]
  BY DEF Return
<1>2. QED
  BY <1>1, JobTypes, JobStep DEF Idle

LEMMA ListStep ==
  ASSUME TypeOK, NEW r \in Replicas, NEW boot \in BOOLEAN, List(r, boot)
  PROVE  /\ job' \in [Replicas -> Job] /\ \A s \in Replicas : s # r => job'[s] = job[s]
         /\ job'[r].pc \in {"idle", "refreshing"} /\ job'[r].todo \subseteq rows
<1> DEFINE l == [Idle EXCEPT !.pc = "refreshing", !.todo = rows, !.boot = boot]
<1>1. l \in Job
  BY JobTypes DEF Job, TypeOK
<1>3. job' = [job EXCEPT ![r] = Idle] \/ job' = [job EXCEPT ![r] = l]
  BY DEF List
<1>4. l.pc = "refreshing" /\ l.todo = rows /\ Idle.pc = "idle" /\ Idle.todo = {}
  BY DEF Idle
<1> HIDE DEF l
<1>5. QED
  BY <1>1, <1>3, <1>4, JobTypes, JobStep

LEMMA NextRowStep ==
  ASSUME TypeOK, NEW r \in Replicas, NEW c, NextRow(r, c)
  PROVE  /\ job' \in [Replicas -> Job] /\ \A s \in Replicas : s # r => job'[s] = job[s]
         /\ job'[r].pc \in {"idle", "refreshing"} /\ job'[r].todo \subseteq job[r].todo
<1> DEFINE rest == job[r].todo \ {c}
           l == [job[r] EXCEPT !.pc = "refreshing", !.row = NoRow, !.todo = rest, !.start = FALSE]
<1>1. job[r] \in Job
  BY DEF TypeOK
<1>2. l \in Job
  BY <1>1 DEF Job
<1>4. job' = [job EXCEPT ![r] = Idle] \/ job' = [job EXCEPT ![r] = l]
  BY DEF NextRow, TypeOK
<1>5. l.pc = "refreshing" /\ l.todo \subseteq job[r].todo /\ Idle.pc = "idle" /\ Idle.todo = {}
  BY <1>1 DEF Idle, Job
<1> HIDE DEF l
<1>6. QED
  BY <1>2, <1>4, <1>5, JobTypes, JobStep

LEMMA SaveStep ==
  ASSUME TypeOK, NEW r \in Replicas, NEW c \in Rows, NEW status \in {"healthy", "unhealthy"},
         NEW start \in BOOLEAN, ThenSave(r, c, status, start)
  PROVE  /\ job' \in [Replicas -> Job] /\ \A s \in Replicas : s # r => job'[s] = job[s]
         /\ job'[r].pc = "saving" /\ job'[r].todo \subseteq job[r].todo
         /\ job'[r].row \in Rows /\ job'[r].row.id = c.id
<1> DEFINE row == [name |-> c.name, id |-> c.id, status |-> status]
           l == [job[r] EXCEPT !.pc = "saving", !.row = row, !.start = start, !.todo = @ \ {c}]
<1>1. job[r] \in Job
  BY DEF TypeOK
<1>2. row \in Rows /\ row.id = c.id /\ row = [c EXCEPT !.status = status]
  BY DEF Rows
<1> HIDE DEF row
<1>3. l \in Job
  BY <1>1, <1>2 DEF Job
<1>4. job' = [job EXCEPT ![r] = l]
  BY <1>2 DEF ThenSave, TypeOK
<1>5. l.pc = "saving" /\ l.todo \subseteq job[r].todo /\ l.row = row
  BY <1>1 DEF Job
<1> HIDE DEF l
<1>6. QED
  BY <1>2, <1>3, <1>4, <1>5, JobStep

-----------------------------------------------------------------------------
(* A step of one replica.                                                  *)

\* What others rely on: ids of the table only grow by the row that r adds,
\* and r takes no number that another Add request has.
OthersFollow(r) ==
  /\ \A s \in Replicas : s # r => /\ job'[s] = job[s] /\ client'[s] = client[s]
                                  /\ informer'[s] = informer[s]
  /\ saved \subseteq saved' /\ probed \subseteq probed' /\ adds <= adds'
  /\ \A k \in saved' : k \in saved \/ (Adding(r) /\ k = job[r].row.id)
  /\ Adding(r)' => (Adding(r) /\ job'[r].row.id = job[r].row.id) \/ job'[r].row.id > adds

LEMMA ReplicaStep ==
  ASSUME IInv, NEW r \in Replicas, OthersFollow(r),
         TypeOK', RowsAreSaved', ValidatedBeforeSaved', JobKnown(r)', Used(r)'
  PROVE  IInv'
<1>1. ASSUME NEW s \in Replicas, s # r PROVE JobKnown(s)' /\ Used(s)'
  <2>1. job'[s] = job[s] /\ client'[s] = client[s] /\ informer'[s] = informer[s] /\ JobKnown(s) /\ Used(s)
        /\ (Adding(s)' <=> Adding(s))
    BY <1>1 DEF OthersFollow, IInv, Adding
  <2>2. Adding(s) => job[s].row.id \notin saved'
    BY <1>1, <2>1 DEF OthersFollow, IInv, AddsAreNew, JobKnown
  <2>3. Adding(s) => job[s].row.id <= adds'
    <3>1. Adding(s) => job[s].row.id \in Nat /\ job[s].row.id <= adds
      BY <2>1 DEF JobKnown, Rows, Ids
    <3>2. adds \in Nat /\ adds' \in Nat /\ adds <= adds'
      BY DEF OthersFollow, IInv, TypeOK
    <3>3. QED
      BY <3>1, <3>2
  <2>4. JobKnown(s)'
    BY <2>1, <2>2, <2>3 DEF JobKnown, OthersFollow
  <2>5. Used(s)'
    BY <2>1 DEF Used, OthersFollow
  <2>6. QED
    BY <2>4, <2>5
<1>2. AddsAreNew'
  <2>1. ASSUME NEW s \in Replicas, s # r, Adding(r)', Adding(s)' PROVE job'[r].row.id # job'[s].row.id
    <3>1. job'[s] = job[s] /\ Adding(s)
      BY <2>1 DEF OthersFollow, Adding
    <3>2. job[s].row.id \in Nat /\ job[s].row.id <= adds /\ adds \in Nat
      BY <3>1 DEF IInv, JobKnown, TypeOK, Rows, Ids
    <3>3. CASE Adding(r) /\ job'[r].row.id = job[r].row.id
      BY <2>1, <3>1, <3>3 DEF IInv, AddsAreNew
    <3>4. CASE job'[r].row.id > adds
      BY <3>1, <3>2, <3>4
    <3>5. QED
      BY <2>1, <3>3, <3>4 DEF OthersFollow
  <2>2. ASSUME NEW s \in Replicas, NEW t \in Replicas, s # r, t # r, s # t, Adding(s)', Adding(t)'
        PROVE  job'[s].row.id # job'[t].row.id
    BY <2>2 DEF OthersFollow, Adding, IInv, AddsAreNew
  <2>3. QED
    BY <2>1, <2>2 DEF AddsAreNew
<1>3. QED
  BY <1>1, <1>2 DEF IInv

\* The connection and the informer of one cluster in one replica.
LEMMA ConnectStep ==
  ASSUME TypeOK, NEW r \in Replicas, NEW n \in Names, NEW k \in Ids \cup {None}
  PROVE  /\ Connect(r, n, k) => /\ client' \in [Replicas -> [Names -> Ids \cup {None}]]
                                /\ \A s \in Replicas : s # r => client'[s] = client[s]
                                /\ \A m \in Names : client'[r][m] = IF m = n THEN k ELSE client[r][m]
         /\ Watch(r, n, k) => /\ informer' \in [Replicas -> [Names -> Ids \cup {None}]]
                              /\ \A s \in Replicas : s # r => informer'[s] = informer[s]
                              /\ \A m \in Names : informer'[r][m] = IF m = n THEN k ELSE informer[r][m]
<1>1. /\ client[r] \in [Names -> Ids \cup {None}] /\ informer[r] \in [Names -> Ids \cup {None}]
      /\ client \in [Replicas -> [Names -> Ids \cup {None}]]
      /\ informer \in [Replicas -> [Names -> Ids \cup {None}]]
  BY DEF TypeOK
<1>2. ASSUME NEW f \in [Names -> Ids \cup {None}]
      PROVE  /\ [f EXCEPT ![n] = k] \in [Names -> Ids \cup {None}]
             /\ \A m \in Names : [f EXCEPT ![n] = k][m] = IF m = n THEN k ELSE f[m]
  OBVIOUS
<1>3. /\ Connect(r, n, k) => client' = [client EXCEPT ![r] = [client[r] EXCEPT ![n] = k]]
      /\ Watch(r, n, k) => informer' = [informer EXCEPT ![r] = [informer[r] EXCEPT ![n] = k]]
  BY <1>1 DEF Connect, Watch
<1>4. ASSUME NEW f \in [Replicas -> [Names -> Ids \cup {None}]], NEW g \in [Names -> Ids \cup {None}]
      PROVE  /\ [f EXCEPT ![r] = g] \in [Replicas -> [Names -> Ids \cup {None}]]
             /\ [f EXCEPT ![r] = g][r] = g
             /\ \A s \in Replicas : s # r => [f EXCEPT ![r] = g][s] = f[s]
  OBVIOUS
<1>5. Connect(r, n, k) => /\ client' \in [Replicas -> [Names -> Ids \cup {None}]]
                          /\ client'[r] = [client[r] EXCEPT ![n] = k]
                          /\ \A s \in Replicas : s # r => client'[s] = client[s]
  BY <1>1, <1>2, <1>3, <1>4
<1>6. Watch(r, n, k) => /\ informer' \in [Replicas -> [Names -> Ids \cup {None}]]
                        /\ informer'[r] = [informer[r] EXCEPT ![n] = k]
                        /\ \A s \in Replicas : s # r => informer'[s] = informer[s]
  BY <1>1, <1>2, <1>3, <1>4
<1>7. QED
  BY <1>1, <1>2, <1>5, <1>6

LEMMA FaultType ==
  ASSUME TypeOK, Ok \/ Fault
  PROVE  faults' \in 0..MaxFaults
<1>1. faults \in 0..MaxFaults /\ MaxFaults \in Nat
  BY ConstantsAssumption DEF TypeOK
<1>2. QED
  BY <1>1 DEF Ok, Fault

-----------------------------------------------------------------------------
(* Add.                                                                    *)

LEMMA AddConnectOK ==
  ASSUME IInv, NEW r \in Replicas, NEW n \in Names, AddConnect(r, n)
  PROVE  IInv'
<1> DEFINE k == adds + 1
           row == [name |-> n, id |-> k, status |-> "healthy"]
           j == [Idle EXCEPT !.pc = "adding", !.row = row]
<1>1. /\ job[r].pc = "idle" /\ adds < MaxAdds /\ (Ok \/ Fault)
      /\ adds' = k /\ Connect(r, n, k) /\ job' = [job EXCEPT ![r] = j]
      /\ UNCHANGED <<rows, informer, reachable, probed, saved, crashes, outages>>
  BY DEF AddConnect, NewId
<1>2. adds \in Nat /\ MaxAdds \in Nat /\ k \in Ids /\ k > adds /\ k \in 0..MaxAdds
  BY <1>1, ConstantsAssumption DEF IInv, TypeOK, Ids
<1>3. row \in Rows /\ row.id = k /\ row.name = n
  BY <1>2 DEF Rows
<1> HIDE DEF row
<1>4. j \in Job /\ j.pc = "adding" /\ j.todo = {} /\ j.row = row
  BY <1>3, JobTypes DEF Job, Idle
<1> HIDE DEF j
<1>5. job' \in [Replicas -> Job] /\ job'[r] = j /\ \A s \in Replicas : s # r => job'[s] = job[s]
  BY <1>1, <1>4, JobStep DEF IInv
<1>6. /\ client' \in [Replicas -> [Names -> Ids \cup {None}]]
      /\ \A s \in Replicas : s # r => client'[s] = client[s]
      /\ \A m \in Names : client'[r][m] = IF m = n THEN k ELSE client[r][m]
  BY <1>1, <1>2, ConnectStep DEF IInv
<1>7. TypeOK'
  BY <1>1, <1>2, <1>5, <1>6, FaultType DEF IInv, TypeOK
<1>8. RowsAreSaved' /\ k \notin saved
  BY <1>1, <1>2 DEF IInv, RowsAreSaved, TypeOK, Ids
<1>9. JobKnown(r)'
  BY <1>1, <1>2, <1>3, <1>4, <1>5, <1>8 DEF JobKnown, Adding
<1>10. Used(r)'
  BY <1>1, <1>3, <1>4, <1>5, <1>6 DEF IInv, Used, Adding
<1>11. OthersFollow(r)
  BY <1>1, <1>2, <1>3, <1>4, <1>5, <1>6 DEF OthersFollow
<1>12. ValidatedBeforeSaved'
  BY <1>1 DEF IInv, ValidatedBeforeSaved
<1>13. QED
  BY <1>7, <1>8, <1>9, <1>10, <1>11, <1>12, ReplicaStep

\* The connection of an Add is dropped: nothing unsaved is in use any more.
LEMMA DropUnsaved ==
  ASSUME IInv, NEW r \in Replicas, Adding(r), Disconnect(r, job[r].row.name)
  PROVE  /\ client' \in [Replicas -> [Names -> Ids \cup {None}]]
         /\ \A s \in Replicas : s # r => client'[s] = client[s]
         /\ \A n \in Names : client'[r][n] \in saved \cup {None}
<1>1. job[r].row \in Rows /\ job[r].row.name \in Names
  BY DEF IInv, JobKnown, Rows
<1>2. Connect(r, job[r].row.name, None)
  BY DEF Disconnect
<1>3. /\ client' \in [Replicas -> [Names -> Ids \cup {None}]]
      /\ \A s \in Replicas : s # r => client'[s] = client[s]
      /\ \A m \in Names : client'[r][m] = IF m = job[r].row.name THEN None ELSE client[r][m]
  BY <1>1, <1>2, ConnectStep DEF IInv
<1>4. QED
  BY <1>3 DEF IInv, Used

LEMMA AddProbeOK ==
  ASSUME IInv, NEW r \in Replicas, AddProbe(r)
  PROVE  IInv'
<1> DEFINE row == job[r].row
<1>1. /\ job[r].pc = "adding" /\ probed' = probed \cup ({row.id} \cap reachable) /\ (Ok \/ Fault)
      /\ UNCHANGED <<rows, informer, adds, reachable, saved, crashes, outages>>
  BY DEF AddProbe
<1>2. row \in Rows /\ row.id \notin saved /\ row.id <= adds /\ Adding(r)
  BY <1>1 DEF IInv, JobKnown, Adding
<1>3. probed' \in SUBSET Ids /\ probed \subseteq probed' /\ faults' \in 0..MaxFaults
  BY <1>1, FaultType DEF IInv, TypeOK
<1>4. RowsAreSaved' /\ ValidatedBeforeSaved' /\ adds <= adds'
  BY <1>1, <1>3 DEF IInv, RowsAreSaved, ValidatedBeforeSaved, TypeOK
<1>5. CASE Answers(row.id) /\ Goto(r, "creating") /\ UNCHANGED client
  <2>1. /\ job' \in [Replicas -> Job] /\ \A s \in Replicas : s # r => job'[s] = job[s]
        /\ job'[r].pc = "creating" /\ job'[r].row = row /\ job'[r].todo = job[r].todo
    BY <1>5, GotoStep DEF IInv
  <2>2. TypeOK'
    BY <1>1, <1>3, <1>5, <2>1 DEF IInv, TypeOK
  <2>3. row.id \in probed'
    BY <1>1, <1>5 DEF Answers
  <2>4. JobKnown(r)' /\ Used(r)'
    BY <1>1, <1>2, <1>5, <2>1, <2>3 DEF IInv, JobKnown, Used, Adding
  <2>5. OthersFollow(r)
    BY <1>1, <1>2, <1>3, <1>4, <1>5, <2>1 DEF OthersFollow
  <2>6. QED
    BY <1>4, <2>2, <2>4, <2>5, ReplicaStep
<1>6. CASE Return(r) /\ Disconnect(r, row.name)
  <2>1. /\ job' \in [Replicas -> Job] /\ \A s \in Replicas : s # r => job'[s] = job[s]
        /\ job'[r].pc = "idle" /\ job'[r].todo = {}
    BY <1>6, ReturnStep DEF IInv
  <2>2. /\ client' \in [Replicas -> [Names -> Ids \cup {None}]]
        /\ \A s \in Replicas : s # r => client'[s] = client[s]
        /\ \A n \in Names : client'[r][n] \in saved \cup {None}
    BY <1>2, <1>6, DropUnsaved
  <2>3. TypeOK'
    BY <1>1, <1>3, <2>1, <2>2 DEF IInv, TypeOK
  <2>4. JobKnown(r)' /\ Used(r)' /\ ~Adding(r)'
    BY <1>1, <2>1, <2>2 DEF IInv, JobKnown, Used, Adding
  <2>5. OthersFollow(r)
    BY <1>1, <1>3, <1>4, <2>1, <2>2, <2>4 DEF OthersFollow
  <2>6. QED
    BY <1>4, <2>3, <2>4, <2>5, ReplicaStep
<1>7. QED
  BY <1>5, <1>6 DEF AddProbe

\* A table in which names and ids are unique.
Unique(t) == \A x, y \in t : x.name = y.name \/ x.id = y.id => x = y

LEMMA AddCreateOK ==
  ASSUME IInv, NEW r \in Replicas, AddCreate(r)
  PROVE  IInv'
<1> DEFINE row == job[r].row
           t == rows \cup {row}
<1>1. /\ job[r].pc = "creating" /\ saved' = saved \cup {x.id : x \in rows'} /\ Return(r) /\ (Ok \/ Fault)
      /\ UNCHANGED <<adds, reachable, probed, crashes, outages>>
      /\ rows' = rows \/ (rows' = t /\ ~Taken(row))
  BY DEF AddCreate, Succeeds, Fails
<1>2. row \in Rows /\ row.id \notin saved /\ row.id <= adds /\ Adding(r) /\ row.id \in probed
  BY <1>1 DEF IInv, JobKnown, Adding
<1>3. /\ job' \in [Replicas -> Job] /\ \A s \in Replicas : s # r => job'[s] = job[s]
      /\ job'[r].pc = "idle" /\ job'[r].todo = {}
  BY <1>1, ReturnStep DEF IInv
<1>4. rows' \in SUBSET Rows /\ Unique(rows')
  <2>1. rows \in SUBSET Rows /\ Unique(rows)
    BY DEF IInv, TypeOK, Unique
  <2>2. \A x \in rows : x.id # row.id
    BY <1>2 DEF IInv, RowsAreSaved
  <2>3. CASE rows' = t /\ ~Taken(row)
    <3>1. \A x \in rows : x.name # row.name
      BY <2>2, <2>3 DEF Taken
    <3>2. QED
      BY <1>2, <2>1, <2>2, <2>3, <3>1 DEF Unique
  <2>4. QED
    BY <1>1, <2>1, <2>3
<1>5. /\ saved \subseteq saved' /\ \A k \in saved' : k \in saved \/ k = row.id
      /\ rows' # rows => row.id \in saved'
      /\ \A x \in rows' : x.id \in saved'
  BY <1>1 DEF IInv, RowsAreSaved
<1>6. saved' \in SUBSET Ids /\ RowsAreSaved' /\ ValidatedBeforeSaved'
  BY <1>1, <1>2, <1>5 DEF IInv, TypeOK, Rows, RowsAreSaved, ValidatedBeforeSaved
<1>7. row.name \in Names
  BY <1>2 DEF Rows
<1>8. /\ client' \in [Replicas -> [Names -> Ids \cup {None}]]
      /\ informer' \in [Replicas -> [Names -> Ids \cup {None}]]
      /\ \A s \in Replicas : s # r => client'[s] = client[s] /\ informer'[s] = informer[s]
      /\ \A n \in Names : client'[r][n] \in saved' \cup {None} /\ informer'[r][n] \in saved' \cup {None}
  <2>1. CASE rows' = t /\ Watch(r, row.name, client[r][row.name]) /\ UNCHANGED client
    <3>1. row.id \in saved'
      BY <1>1, <2>1
    <3>2. \A n \in Names : client[r][n] \in saved' \cup {None}
      BY <1>5, <3>1 DEF IInv, Used
    <3>3. client[r][row.name] \in Ids \cup {None}
      BY <1>7 DEF IInv, TypeOK
    <3>4. /\ informer' \in [Replicas -> [Names -> Ids \cup {None}]]
          /\ \A s \in Replicas : s # r => informer'[s] = informer[s]
          /\ \A m \in Names : informer'[r][m] = IF m = row.name THEN client[r][row.name] ELSE informer[r][m]
      BY <1>7, <2>1, <3>3, ConnectStep DEF IInv
    <3>5. \A n \in Names : informer'[r][n] \in saved' \cup {None}
      BY <1>5, <1>7, <3>2, <3>4 DEF IInv, Used
    <3>6. QED
      BY <2>1, <3>2, <3>4, <3>5 DEF IInv, TypeOK
  <2>2. CASE Disconnect(r, row.name) /\ UNCHANGED informer
    <3>1. /\ client' \in [Replicas -> [Names -> Ids \cup {None}]]
          /\ \A s \in Replicas : s # r => client'[s] = client[s]
          /\ \A n \in Names : client'[r][n] \in saved \cup {None}
      BY <1>2, <2>2, DropUnsaved
    <3>2. QED
      BY <1>5, <2>2, <3>1 DEF IInv, TypeOK, Used
  <2>3. QED
    BY <2>1, <2>2 DEF AddCreate, Succeeds
<1>9. TypeOK'
  BY <1>1, <1>3, <1>4, <1>6, <1>8, FaultType DEF IInv, TypeOK, Unique
<1>10. JobKnown(r)' /\ Used(r)' /\ ~Adding(r)'
  BY <1>3, <1>8 DEF JobKnown, Used, Adding
<1>11. OthersFollow(r)
  <2>1. adds <= adds'
    BY <1>1 DEF IInv, TypeOK
  <2>2. QED
    BY <1>1, <1>2, <1>3, <1>5, <1>8, <1>10, <2>1 DEF OthersFollow
<1>12. QED
  BY <1>6, <1>9, <1>10, <1>11, ReplicaStep

-----------------------------------------------------------------------------
(* Remove and the health check.                                            *)

LEMMA RemoveStopOK ==
  ASSUME IInv, NEW r \in Replicas, NEW x \in rows, RemoveStop(r, x)
  PROVE  IInv'
<1> DEFINE j == [Idle EXCEPT !.pc = "removing", !.row = x]
<1>1. /\ job[r].pc = "idle" /\ job' = [job EXCEPT ![r] = j]
      /\ Watch(r, x.name, None) /\ Connect(r, x.name, None)
      /\ UNCHANGED <<rows, adds, reachable, probed, saved, faults, crashes, outages>>
  BY DEF RemoveStop, StopForCluster
<1>2. x \in Rows /\ x.name \in Names /\ x.id \in saved
  BY DEF IInv, TypeOK, Rows, RowsAreSaved
<1>3. j \in Job /\ j.pc = "removing" /\ j.todo = {} /\ j.row = x
  BY <1>2, JobTypes DEF Job, Idle
<1> HIDE DEF j
<1>4. job' \in [Replicas -> Job] /\ job'[r] = j /\ \A s \in Replicas : s # r => job'[s] = job[s]
  BY <1>1, <1>3, JobStep DEF IInv
<1>5. /\ client' \in [Replicas -> [Names -> Ids \cup {None}]]
      /\ informer' \in [Replicas -> [Names -> Ids \cup {None}]]
      /\ \A s \in Replicas : s # r => client'[s] = client[s] /\ informer'[s] = informer[s]
      /\ \A m \in Names : /\ client'[r][m] = IF m = x.name THEN None ELSE client[r][m]
                          /\ informer'[r][m] = IF m = x.name THEN None ELSE informer[r][m]
  BY <1>1, <1>2, ConnectStep DEF IInv
<1>6. TypeOK' /\ RowsAreSaved' /\ ValidatedBeforeSaved'
  BY <1>1, <1>4, <1>5 DEF IInv, TypeOK, RowsAreSaved, ValidatedBeforeSaved
<1>7. JobKnown(r)' /\ Used(r)' /\ ~Adding(r)'
  BY <1>1, <1>2, <1>3, <1>4, <1>5 DEF IInv, JobKnown, Used, Adding
<1>8. OthersFollow(r)
  BY <1>1, <1>4, <1>5, <1>7 DEF OthersFollow, IInv, TypeOK
<1>9. QED
  BY <1>6, <1>7, <1>8, ReplicaStep

\* A replica without an Add in progress goes on to a job that is none either;
\* its connections and informers are the same, or stopped, or saved ones.
LEMMA PlainStep ==
  ASSUME IInv, NEW r \in Replicas, ~Adding(r), ~Adding(r)', TypeOK',
         \A s \in Replicas : s # r => /\ job'[s] = job[s] /\ client'[s] = client[s]
                                      /\ informer'[s] = informer[s],
         \A x \in rows' : x.id \in saved,
         UNCHANGED <<adds, saved>>, probed \subseteq probed',
         \A x \in job'[r].todo : x.id \in saved,
         job'[r].pc \in {"removing", "saving"} => job'[r].row \in Rows /\ job'[r].row.id \in saved,
         \A n \in Names : client'[r][n] \in saved \cup {None} /\ informer'[r][n] \in saved \cup {None}
  PROVE  IInv'
<1>1. RowsAreSaved' /\ ValidatedBeforeSaved'
  BY DEF IInv, RowsAreSaved, ValidatedBeforeSaved
<1>2. JobKnown(r)' /\ Used(r)'
  BY DEF JobKnown, Used, Adding
<1>3. OthersFollow(r)
  BY DEF OthersFollow, IInv, TypeOK
<1>4. QED
  BY <1>1, <1>2, <1>3, ReplicaStep

\* What a replica without an Add in progress uses.
LEMMA PlainUse ==
  ASSUME IInv, NEW r \in Replicas, ~Adding(r)
  PROVE  \A n \in Names : client[r][n] \in saved \cup {None} /\ informer[r][n] \in saved \cup {None}
BY DEF IInv, Used

LEMMA RemoveDeleteOK ==
  ASSUME IInv, NEW r \in Replicas, RemoveDelete(r)
  PROVE  IInv'
<1>1. /\ job[r].pc = "removing" /\ Return(r) /\ (Ok \/ Fault) /\ rows' \subseteq rows
      /\ UNCHANGED <<client, informer, adds, reachable, probed, saved, crashes, outages>>
  BY DEF RemoveDelete, Remaining, Succeeds, Fails
<1>2. /\ job' \in [Replicas -> Job] /\ \A s \in Replicas : s # r => job'[s] = job[s]
      /\ job'[r].pc = "idle" /\ job'[r].todo = {}
  BY <1>1, ReturnStep DEF IInv
<1>3. TypeOK' /\ \A x \in rows' : x.id \in saved
  BY <1>1, <1>2, FaultType DEF IInv, TypeOK, RowsAreSaved
<1>4. ~Adding(r) /\ ~Adding(r)'
  BY <1>1, <1>2 DEF Adding
<1>5. QED
  BY <1>1, <1>2, <1>3, <1>4, PlainUse, PlainStep

LEMMA ListOK ==
  ASSUME IInv, NEW r \in Replicas, RefreshHealth(r) \/ InitClusters(r)
  PROVE  IInv'
<1>1. /\ job[r].pc \in {"idle", "down"} /\ faults' \in 0..MaxFaults
      /\ UNCHANGED <<rows, client, informer, adds, reachable, probed, saved, crashes, outages>>
  BY FaultType DEF RefreshHealth, InitClusters, Ok, IInv
<1>2. /\ job' \in [Replicas -> Job] /\ \A s \in Replicas : s # r => job'[s] = job[s]
      /\ job'[r].pc \in {"idle", "refreshing"} /\ job'[r].todo \subseteq rows
  <2>1. PICK boot \in BOOLEAN : List(r, boot) \/ Return(r)
    BY DEF RefreshHealth, InitClusters
  <2>2. QED
    BY <2>1, ListStep, ReturnStep DEF IInv
<1>3. TypeOK' /\ (\A x \in rows' : x.id \in saved) /\ \A x \in job'[r].todo : x.id \in saved
  BY <1>1, <1>2 DEF IInv, TypeOK, RowsAreSaved
<1>4. ~Adding(r) /\ ~Adding(r)'
  BY <1>1, <1>2 DEF Adding
<1>5. QED
  BY <1>1, <1>2, <1>3, <1>4, PlainUse, PlainStep

\* The row that a health check has in hand.
LEMMA Listed ==
  ASSUME IInv, NEW r \in Replicas, NEW c \in job[r].todo
  PROVE  c \in Rows /\ c.name \in Names /\ c.id \in Ids /\ c.id \in saved
BY DEF IInv, TypeOK, Job, JobKnown, Rows

\* The next job of a health check, whichever row is in hand.
LEMMA NextJob ==
  ASSUME IInv, NEW r \in Replicas, NEW c \in job[r].todo,
         NextRow(r, c) \/ \E status \in {"healthy", "unhealthy"}, start \in BOOLEAN : ThenSave(r, c, status, start)
  PROVE  /\ job' \in [Replicas -> Job] /\ \A s \in Replicas : s # r => job'[s] = job[s]
         /\ job'[r].pc \in {"idle", "refreshing", "saving"}
         /\ \A x \in job'[r].todo : x.id \in saved
         /\ job'[r].pc = "saving" => job'[r].row \in Rows /\ job'[r].row.id \in saved
<1>1. c \in Rows /\ c.id \in saved /\ \A x \in job[r].todo : x.id \in saved
  BY Listed DEF IInv, JobKnown
<1>2. CASE NextRow(r, c)
  BY <1>1, <1>2, NextRowStep DEF IInv
<1>3. ASSUME NEW status \in {"healthy", "unhealthy"}, NEW start \in BOOLEAN, ThenSave(r, c, status, start)
      PROVE  /\ job' \in [Replicas -> Job] /\ \A s \in Replicas : s # r => job'[s] = job[s]
             /\ job'[r].pc = "saving" /\ job'[r].todo \subseteq job[r].todo
             /\ job'[r].row \in Rows /\ job'[r].row.id = c.id
  BY <1>1, <1>3, SaveStep DEF IInv
<1>4. QED
  BY <1>1, <1>2, <1>3

LEMMA ReconnectFailsOK ==
  ASSUME IInv, NEW r \in Replicas, NEW c \in job[r].todo, ReconnectFails(r, c)
  PROVE  IInv'
<1>1. /\ job[r].pc = "refreshing" /\ Fault
      /\ UNCHANGED <<rows, client, informer, adds, reachable, probed, saved, crashes, outages>>
  BY DEF ReconnectFails
<1>2. NextRow(r, c) \/ \E status \in {"healthy", "unhealthy"}, start \in BOOLEAN : ThenSave(r, c, status, start)
  BY DEF ReconnectFails
<1>3. /\ job' \in [Replicas -> Job] /\ \A s \in Replicas : s # r => job'[s] = job[s]
      /\ job'[r].pc \in {"idle", "refreshing", "saving"}
      /\ \A x \in job'[r].todo : x.id \in saved
      /\ job'[r].pc = "saving" => job'[r].row \in Rows /\ job'[r].row.id \in saved
  BY <1>2, NextJob
<1>4. TypeOK' /\ \A x \in rows' : x.id \in saved
  BY <1>1, <1>3, FaultType DEF IInv, TypeOK, RowsAreSaved
<1>5. ~Adding(r) /\ ~Adding(r)'
  BY <1>1, <1>3 DEF Adding
<1>6. QED
  BY <1>1, <1>3, <1>4, <1>5, PlainUse, PlainStep

LEMMA ProbeRowOK ==
  ASSUME IInv, NEW r \in Replicas, NEW c \in job[r].todo, NEW upgraded \in BOOLEAN, ProbeRow(r, c, upgraded)
  PROVE  IInv'
<1> DEFINE k == IF MustConnect(r, c) THEN c.id ELSE client[r][c.name]
<1>1. /\ job[r].pc = "refreshing" /\ Connect(r, c.name, k) /\ probed' = probed \cup ({k} \cap reachable)
      /\ UNCHANGED <<rows, adds, reachable, saved, faults, crashes, outages>>
      /\ UNCHANGED informer \/ Watch(r, c.name, None) \/ Watch(r, c.name, k)
  BY DEF ProbeRow, StopForCluster
<1>2. NextRow(r, c) \/ \E status \in {"healthy", "unhealthy"}, start \in BOOLEAN : ThenSave(r, c, status, start)
  <2>1. NeedsStart(r, c) \in BOOLEAN
    BY DEF NeedsStart, MustConnect, IInv, TypeOK, Job
  <2>2. QED
    BY <2>1 DEF ProbeRow
<1>3. c.name \in Names /\ c.id \in Ids /\ c.id \in saved
  BY Listed
<1>4. ~Adding(r)
  BY <1>1 DEF Adding
<1>5. k \in saved \cup {None} /\ k \in Ids \cup {None}
  BY <1>3, <1>4, PlainUse DEF IInv, TypeOK
<1> HIDE DEF k
<1>6. /\ job' \in [Replicas -> Job] /\ \A s \in Replicas : s # r => job'[s] = job[s]
      /\ job'[r].pc \in {"idle", "refreshing", "saving"}
      /\ \A x \in job'[r].todo : x.id \in saved
      /\ job'[r].pc = "saving" => job'[r].row \in Rows /\ job'[r].row.id \in saved
  BY <1>2, NextJob
<1>7. /\ client' \in [Replicas -> [Names -> Ids \cup {None}]]
      /\ \A s \in Replicas : s # r => client'[s] = client[s]
      /\ \A n \in Names : client'[r][n] \in saved \cup {None}
  BY <1>1, <1>3, <1>4, <1>5, ConnectStep, PlainUse DEF IInv
<1>8. /\ informer' \in [Replicas -> [Names -> Ids \cup {None}]]
      /\ \A s \in Replicas : s # r => informer'[s] = informer[s]
      /\ \A n \in Names : informer'[r][n] \in saved \cup {None}
  <2>1. CASE UNCHANGED informer
    BY <1>4, <2>1, PlainUse DEF IInv, TypeOK
  <2>2. CASE Watch(r, c.name, None)
    BY <1>3, <1>4, <2>2, ConnectStep, PlainUse DEF IInv
  <2>3. CASE Watch(r, c.name, k)
    BY <1>3, <1>4, <1>5, <2>3, ConnectStep, PlainUse DEF IInv
  <2>4. QED
    BY <1>1, <2>1, <2>2, <2>3
<1>9. TypeOK' /\ \A x \in rows' : x.id \in saved
  BY <1>1, <1>6, <1>7, <1>8 DEF IInv, TypeOK, RowsAreSaved
<1>10. ~Adding(r)' /\ probed \subseteq probed'
  BY <1>1, <1>6 DEF Adding
<1>11. QED
  BY <1>1, <1>4, <1>6, <1>7, <1>8, <1>9, <1>10, PlainStep

LEMMA SaveStatusOK ==
  ASSUME IInv, NEW r \in Replicas, SaveStatus(r)
  PROVE  IInv'
<1> DEFINE row == job[r].row
           t == SaveRow(rows, row)
<1>1. /\ job[r].pc = "saving" /\ (Ok \/ Fault) /\ NextRow(r, row)
      /\ rows' = rows \/ (rows' = t /\ ~Taken(row))
      /\ UNCHANGED informer \/ Watch(r, row.name, client[r][row.name])
      /\ UNCHANGED <<client, adds, reachable, probed, saved, crashes, outages>>
  BY DEF SaveStatus, Succeeds, Fails
<1>2. row \in Rows /\ row.id \in saved /\ row.name \in Names /\ \A x \in job[r].todo : x.id \in saved
  BY <1>1 DEF IInv, JobKnown, Rows
<1>3. /\ job' \in [Replicas -> Job] /\ \A s \in Replicas : s # r => job'[s] = job[s]
      /\ job'[r].pc \in {"idle", "refreshing"} /\ job'[r].todo \subseteq job[r].todo
  BY <1>1, NextRowStep DEF IInv
<1>4. rows' \in SUBSET Rows /\ Unique(rows') /\ \A x \in rows' : x.id \in saved
  <2>1. rows \in SUBSET Rows /\ Unique(rows) /\ \A x \in rows : x.id \in saved
    BY DEF IInv, TypeOK, Unique, RowsAreSaved
  <2>2. CASE rows' = t /\ ~Taken(row)
    BY <1>2, <2>1, <2>2 DEF Taken, SaveRow, Unique
  <2>3. QED
    BY <1>1, <2>1, <2>2
<1>5. ~Adding(r) /\ ~Adding(r)'
  BY <1>1, <1>3 DEF Adding
<1>6. /\ informer' \in [Replicas -> [Names -> Ids \cup {None}]]
      /\ \A s \in Replicas : s # r => informer'[s] = informer[s]
      /\ \A n \in Names : informer'[r][n] \in saved \cup {None}
  <2>1. CASE UNCHANGED informer
    BY <1>5, <2>1, PlainUse DEF IInv, TypeOK
  <2>2. CASE Watch(r, row.name, client[r][row.name])
    <3>1. client[r][row.name] \in saved \cup {None} /\ client[r][row.name] \in Ids \cup {None}
      BY <1>2, <1>5, PlainUse DEF IInv, TypeOK
    <3>2. QED
      BY <1>2, <1>5, <2>2, <3>1, ConnectStep, PlainUse DEF IInv
  <2>3. QED
    BY <1>1, <2>1, <2>2
<1>7. TypeOK'
  BY <1>1, <1>3, <1>4, <1>6, FaultType DEF IInv, TypeOK, Unique
<1>8. QED
  BY <1>1, <1>2, <1>3, <1>4, <1>5, <1>6, <1>7, PlainUse, PlainStep

\* A crash loses what one replica had in memory.
LEMMA CrashOK ==
  ASSUME IInv, NEW r \in Replicas, Crash(r)
  PROVE  IInv'
<1>1. /\ crashes < MaxCrashes /\ crashes' = crashes + 1 /\ job' = [job EXCEPT ![r] = Down]
      /\ client' = [client EXCEPT ![r] = [n \in Names |-> None]]
      /\ informer' = [informer EXCEPT ![r] = [n \in Names |-> None]]
      /\ UNCHANGED <<rows, adds, reachable, probed, saved, faults, outages>>
  BY DEF Crash
<1>2. job' \in [Replicas -> Job] /\ job'[r] = Down /\ \A s \in Replicas : s # r => job'[s] = job[s]
  BY <1>1, JobTypes, JobStep DEF IInv
<1>3. Down.pc = "down" /\ Down.todo = {}
  BY DEF Down, Idle
<1>4. /\ client' \in [Replicas -> [Names -> Ids \cup {None}]]
      /\ informer' \in [Replicas -> [Names -> Ids \cup {None}]]
      /\ \A s \in Replicas : s # r => client'[s] = client[s] /\ informer'[s] = informer[s]
      /\ \A n \in Names : client'[r][n] = None /\ informer'[r][n] = None
  BY <1>1 DEF IInv, TypeOK
<1>5. crashes' \in 0..MaxCrashes
  BY <1>1, ConstantsAssumption DEF IInv, TypeOK
<1>6. TypeOK' /\ RowsAreSaved' /\ ValidatedBeforeSaved'
  BY <1>1, <1>2, <1>4, <1>5 DEF IInv, TypeOK, RowsAreSaved, ValidatedBeforeSaved
<1>7. JobKnown(r)' /\ Used(r)' /\ ~Adding(r)'
  BY <1>2, <1>3, <1>4 DEF JobKnown, Used, Adding
<1>8. OthersFollow(r)
  BY <1>1, <1>2, <1>4, <1>7 DEF OthersFollow, IInv, TypeOK
<1>9. QED
  BY <1>6, <1>7, <1>8, ReplicaStep

LEMMA OutageOK ==
  ASSUME IInv, NEW k \in Ids, Outage(k) \/ Recovery(k)
  PROVE  IInv'
<1>1. UNCHANGED <<rows, client, informer, job, adds, probed, saved, faults, crashes>>
  BY DEF Outage, Recovery
<1>2. reachable' \in SUBSET Ids /\ outages' \in 0..MaxOutages
  BY ConstantsAssumption DEF Outage, Recovery, IInv, TypeOK
<1>3. TypeOK' /\ RowsAreSaved' /\ AddsAreNew' /\ ValidatedBeforeSaved'
  BY <1>1, <1>2 DEF IInv, TypeOK, RowsAreSaved, AddsAreNew, ValidatedBeforeSaved, Adding
<1>4. \A r \in Replicas : JobKnown(r)' /\ Used(r)'
  BY <1>1 DEF IInv, JobKnown, Used, Adding
<1>5. QED
  BY <1>3, <1>4 DEF IInv

-----------------------------------------------------------------------------
LEMMA InitOK == Init => IInv
<1> SUFFICES ASSUME Init PROVE IInv
  OBVIOUS
<1>1. \A r \in Replicas : job[r] = Down /\ Down.pc = "down" /\ Down.todo = {}
                          /\ \A n \in Names : client[r][n] = None /\ informer[r][n] = None
  BY DEF Init, Down, Idle
<1>2. TypeOK
  BY ConstantsAssumption, JobTypes DEF Init, TypeOK
<1>3. RowsAreSaved /\ AddsAreNew /\ ValidatedBeforeSaved
  BY <1>1 DEF Init, RowsAreSaved, AddsAreNew, ValidatedBeforeSaved, Adding
<1>4. \A r \in Replicas : JobKnown(r) /\ Used(r)
  BY <1>1 DEF JobKnown, Used, Adding
<1>5. QED
  BY <1>2, <1>3, <1>4 DEF IInv

LEMMA NextOK == IInv /\ [Next]_vars => IInv'
<1> SUFFICES ASSUME IInv, [Next]_vars PROVE IInv'
  OBVIOUS
<1>1. CASE UNCHANGED vars
  BY <1>1 DEF vars, IInv, TypeOK, RowsAreSaved, AddsAreNew, ValidatedBeforeSaved, JobKnown, Used, Adding
<1>2. ASSUME NEW r \in Replicas, NEW n \in Names, AddConnect(r, n) PROVE IInv'
  BY <1>2, AddConnectOK
<1>3. ASSUME NEW r \in Replicas, NEW x \in rows, RemoveStop(r, x) PROVE IInv'
  BY <1>3, RemoveStopOK
<1>4. ASSUME NEW r \in Replicas, RefreshHealth(r) \/ InitClusters(r) \/ Crash(r) PROVE IInv'
  BY <1>4, ListOK, CrashOK
<1>5. ASSUME NEW r \in Replicas, Proceed(r) PROVE IInv'
  BY <1>5, AddProbeOK, AddCreateOK, RemoveDeleteOK, ReconnectFailsOK, ProbeRowOK, SaveStatusOK DEF Proceed, Refresh
<1>6. ASSUME NEW k \in Ids, Outage(k) \/ Recovery(k) PROVE IInv'
  BY <1>6, OutageOK
<1>7. QED
  BY <1>1, <1>2, <1>3, <1>4, <1>5, <1>6 DEF Next

\* The inductive invariant.
THEOREM Invariance == Spec => []IInv
<1>1. IInv /\ [Next]_vars => IInv'
  BY NextOK
<1>2. QED
  BY <1>1, InitOK, PTL DEF Spec

\* Every variable stays in its type, and no two rows have a name or an id in
\* common, whichever replicas write the table at once.
THEOREM TypeCorrect == Spec => []TypeOK
<1>1. IInv => TypeOK
  BY DEF IInv
<1>2. QED
  BY <1>1, Invariance, PTL

\* Whatever statement or probe fails, in whichever replica: credentials that
\* were never saved are used by the Add request that brought them only.
THEOREM UnsavedIsUnused == Spec => []NothingUnsavedIsUsed
<1>1. IInv => NothingUnsavedIsUsed
  BY DEF IInv, Used, Adding, NothingUnsavedIsUsed
<1>2. QED
  BY <1>1, Invariance, PTL

\* What is in the table has answered a probe before it was saved.
THEOREM SavedWasValidated == Spec => []ValidatedBeforeSaved
<1>1. IInv => ValidatedBeforeSaved
  BY DEF IInv
<1>2. QED
  BY <1>1, Invariance, PTL

\* A row goes away only by a Remove request for it: the status that a health
\* check writes, from a row it has read before, drops no registration.
THEOREM RegistrationsStay == Spec => OnlyRemoveDeletes
<1> DEFINE Kept == \A x \in rows : (\A y \in rows' : y.id # x.id) =>
                     \E r \in Replicas : job[r].pc = "removing" /\ job[r].row.id = x.id
<1>1. [Next]_vars => [Kept]_vars
  <2> SUFFICES ASSUME Next, NEW x \in rows, \A y \in rows' : y.id # x.id
               PROVE  \E r \in Replicas : job[r].pc = "removing" /\ job[r].row.id = x.id
    BY DEF vars
  <2>1. rows' # rows
    OBVIOUS
  <2>2. PICK r \in Replicas : AddCreate(r) \/ RemoveDelete(r) \/ SaveStatus(r)
    <3>1. ASSUME NEW r \in Replicas, NEW n \in Names, AddConnect(r, n) PROVE FALSE
      BY <2>1, <3>1 DEF AddConnect
    <3>2. ASSUME NEW r \in Replicas, NEW y \in rows, RemoveStop(r, y) PROVE FALSE
      BY <2>1, <3>2 DEF RemoveStop
    <3>3. ASSUME NEW r \in Replicas, RefreshHealth(r) \/ InitClusters(r) \/ Crash(r) \/ AddProbe(r) PROVE FALSE
      BY <2>1, <3>3 DEF RefreshHealth, InitClusters, Crash, AddProbe
    <3>4. ASSUME NEW r \in Replicas, NEW c \in job[r].todo, NEW upgraded \in BOOLEAN,
                 ReconnectFails(r, c) \/ ProbeRow(r, c, upgraded)
          PROVE  FALSE
      BY <2>1, <3>4 DEF ReconnectFails, ProbeRow
    <3>5. ASSUME NEW k \in Ids, Outage(k) \/ Recovery(k) PROVE FALSE
      BY <2>1, <3>5 DEF Outage, Recovery
    <3>6. ASSUME NEW r \in Replicas, Refresh(r) PROVE SaveStatus(r)
      BY <3>4, <3>6 DEF Refresh
    <3>7. ASSUME NEW r \in Replicas, Proceed(r) PROVE AddCreate(r) \/ RemoveDelete(r) \/ SaveStatus(r)
      BY <3>3, <3>6, <3>7 DEF Proceed
    <3>8. QED
      BY <3>1, <3>2, <3>3, <3>5, <3>7 DEF Next
  <2>3. ~AddCreate(r)
    BY <2>1 DEF AddCreate, Succeeds, Fails
  <2>4. ~SaveStatus(r)
    BY <2>1 DEF SaveStatus, SaveRow, Succeeds, Fails
  <2>5. job[r].pc = "removing" /\ job[r].row.id = x.id
    BY <2>2, <2>3, <2>4 DEF RemoveDelete, Remaining, Succeeds, Fails
  <2>6. QED
    BY <2>5
<1>2. QED
  BY <1>1, PTL DEF Spec, OnlyRemoveDeletes

-----------------------------------------------------------------------------
(* One replica.  No other writes the table between its statements, so what *)
(* a job has read stays true until it uses it, and what the replica has in *)
(* memory agrees with the table at every statement.                        *)

WatchesAgree(r) ==
  \A n \in Names : informer[r][n] # None =>
    \E x \in rows : x.name = n /\ x.id = informer[r][n] /\ x.status = "healthy"

ConnectionsAgree(r) ==
  \A n \in Names : client[r][n] # None =>
    \/ \E x \in rows : x.name = n /\ x.id = client[r][n]
    \/ Adding(r) /\ n = job[r].row.name

Unused(r, n) == client[r][n] = None /\ informer[r][n] = None

\* What is to be saved: the row it replaces is still there, and its cluster is
\* not watched if it is to be shown as unhealthy.
SaveAgrees(r) ==
  LET row == job[r].row IN
  /\ \E x \in rows : x.id = row.id /\ x.name = row.name
  /\ \A x \in job[r].todo : x.id # row.id
  /\ row.status = "unhealthy" => informer[r][row.name] = None
  /\ job[r].start => row.status = "healthy" /\ client[r][row.name] = row.id

JobAgrees(r) ==
  /\ job[r].pc = "down" => \A n \in Names : Unused(r, n)
  /\ Adding(r) => client[r][job[r].row.name] = job[r].row.id /\ job[r].row.status = "healthy"
  /\ job[r].pc = "removing" => job[r].row \in rows /\ Unused(r, job[r].row.name)
  /\ job[r].todo \subseteq rows
  /\ job[r].boot => \A x \in job[r].todo : Unused(r, x.name)
  /\ job[r].pc = "saving" => SaveAgrees(r)

Agrees(r) == WatchesAgree(r) /\ ConnectionsAgree(r) /\ JobAgrees(r)

\* How a job goes on, field by field.
LEMMA IdleJob ==
  ASSUME TypeOK, NEW r \in Replicas, Return(r)
  PROVE  job'[r].pc = "idle" /\ job'[r].todo = {}
<1>1. job'[r] = Idle
  BY JobTypes, JobStep DEF Return
<1>2. QED
  BY <1>1 DEF Idle

LEMMA NextRowJob ==
  ASSUME TypeOK, NEW r \in Replicas, NEW c, NextRow(r, c)
  PROVE  /\ job'[r].pc \in {"idle", "refreshing"} /\ job'[r].todo = job[r].todo \ {c}
         /\ job'[r].todo # {} => job'[r].boot = job[r].boot
<1> DEFINE rest == job[r].todo \ {c}
           l == [job[r] EXCEPT !.pc = "refreshing", !.row = NoRow, !.todo = rest, !.start = FALSE]
<1>1. job[r] \in Job /\ job \in [Replicas -> Job]
  BY DEF TypeOK
<1>2. CASE rest = {}
  <2>1. Return(r)
    BY <1>2 DEF NextRow, Return
  <2>2. QED
    BY <1>2, <2>1, IdleJob
<1>3. CASE rest # {}
  <2>1. job'[r] = l
    BY <1>1, <1>3 DEF NextRow
  <2>2. l.pc = "refreshing" /\ l.todo = rest /\ l.boot = job[r].boot
    BY <1>1 DEF Job
  <2>3. QED
    BY <2>1, <2>2
<1>4. QED
  BY <1>2, <1>3

LEMMA SaveJob ==
  ASSUME TypeOK, NEW r \in Replicas, NEW c \in Rows, NEW status, NEW start \in BOOLEAN,
         ThenSave(r, c, status, start)
  PROVE  /\ job'[r].pc = "saving" /\ job'[r].todo = job[r].todo \ {c}
         /\ job'[r].boot = job[r].boot /\ job'[r].start = start
         /\ job'[r].row.id = c.id /\ job'[r].row.name = c.name /\ job'[r].row.status = status
<1> DEFINE row == [c EXCEPT !.status = status]
<1>1. job[r] \in Job /\ job \in [Replicas -> Job]
  BY DEF TypeOK
<1>2. row.id = c.id /\ row.name = c.name /\ row.status = status
  BY DEF Rows
<1> HIDE DEF row
<1> DEFINE l == [job[r] EXCEPT !.pc = "saving", !.row = row, !.start = start, !.todo = @ \ {c}]
<1>3. job'[r] = l
  BY <1>1 DEF ThenSave, row
<1>4. /\ l.pc = "saving" /\ l.todo = job[r].todo \ {c} /\ l.boot = job[r].boot /\ l.start = start
      /\ l.row = row
  BY <1>1 DEF Job
<1> HIDE DEF l
<1>5. QED
  BY <1>2, <1>3, <1>4

LEMMA AddConnectAgrees ==
  ASSUME IInv, NEW r \in Replicas, NEW n \in Names, Agrees(r), AddConnect(r, n)
  PROVE  Agrees(r)'
<1> DEFINE k == adds + 1
           row == [name |-> n, id |-> k, status |-> "healthy"]
           j == [Idle EXCEPT !.pc = "adding", !.row = row]
<1>1. /\ job[r].pc = "idle" /\ adds < MaxAdds /\ Connect(r, n, k) /\ job' = [job EXCEPT ![r] = j]
      /\ UNCHANGED <<rows, informer>>
  BY DEF AddConnect, NewId
<1>2. k \in Ids
  BY <1>1, ConstantsAssumption DEF IInv, TypeOK, Ids
<1>3. row.id = k /\ row.name = n /\ row.status = "healthy"
  OBVIOUS
<1> HIDE DEF row
<1>4. j.pc = "adding" /\ j.todo = {} /\ j.row = row
  BY DEF Idle
<1>5. job'[r] = j
  BY <1>1 DEF IInv, TypeOK
<1> HIDE DEF j
<1>6. \A m \in Names : client'[r][m] = IF m = n THEN k ELSE client[r][m]
  BY <1>1, <1>2, ConnectStep DEF IInv
<1>7. WatchesAgree(r)'
  BY <1>1 DEF Agrees, WatchesAgree
<1>8. ConnectionsAgree(r)'
  BY <1>1, <1>3, <1>4, <1>5, <1>6 DEF Agrees, ConnectionsAgree, Adding
<1>9. JobAgrees(r)'
  BY <1>3, <1>4, <1>5, <1>6 DEF JobAgrees, Adding
<1>10. QED
  BY <1>7, <1>8, <1>9 DEF Agrees

LEMMA AddProbeAgrees ==
  ASSUME IInv, NEW r \in Replicas, Agrees(r), AddProbe(r)
  PROVE  Agrees(r)'
<1> DEFINE row == job[r].row
<1>1. /\ job[r].pc = "adding" /\ Adding(r) /\ UNCHANGED <<rows, informer>>
      /\ row.name \in Names
  BY DEF AddProbe, Adding, IInv, JobKnown, Rows
<1>2. WatchesAgree(r)'
  BY <1>1 DEF Agrees, WatchesAgree
<1>3. CASE Goto(r, "creating") /\ UNCHANGED client
  <2>1. job'[r].pc = "creating" /\ job'[r].row = row /\ job'[r].todo = job[r].todo /\ job'[r].boot = job[r].boot
    BY <1>3 DEF Goto, IInv, TypeOK, Job
  <2>2. ConnectionsAgree(r)'
    BY <1>1, <1>3, <2>1 DEF Agrees, ConnectionsAgree, Adding
  <2>3. JobAgrees(r)'
    BY <1>1, <1>3, <2>1 DEF Agrees, JobAgrees, Adding, Unused
  <2>4. QED
    BY <1>2, <2>2, <2>3 DEF Agrees
<1>4. CASE Return(r) /\ Disconnect(r, row.name)
  <2>1. job'[r].pc = "idle" /\ job'[r].todo = {}
    BY <1>4, IdleJob DEF IInv
  <2>2. \A m \in Names : client'[r][m] = IF m = row.name THEN None ELSE client[r][m]
    BY <1>1, <1>4, ConnectStep DEF Disconnect, IInv
  <2>3. ConnectionsAgree(r)'
    BY <1>1, <2>2 DEF Agrees, ConnectionsAgree
  <2>4. JobAgrees(r)'
    BY <2>1 DEF JobAgrees, Adding
  <2>5. QED
    BY <1>2, <2>3, <2>4 DEF Agrees
<1>5. QED
  BY <1>3, <1>4 DEF AddProbe

LEMMA AddCreateAgrees ==
  ASSUME IInv, NEW r \in Replicas, Agrees(r), AddCreate(r)
  PROVE  Agrees(r)'
<1> DEFINE row == job[r].row
<1>1. /\ job[r].pc = "creating" /\ Adding(r) /\ Return(r)
      /\ row.name \in Names /\ client[r][row.name] = row.id /\ row.status = "healthy"
      /\ client[r][row.name] \in Ids \cup {None}
  BY DEF AddCreate, Adding, IInv, TypeOK, JobKnown, Rows, Agrees, JobAgrees
<1>2. JobAgrees(r)'
  <2>1. job'[r].pc = "idle" /\ job'[r].todo = {}
    BY <1>1, IdleJob DEF IInv
  <2>2. QED
    BY <2>1 DEF JobAgrees, Adding
<1>3. rows \subseteq rows'
  BY DEF AddCreate, Succeeds, Fails
<1>4. CASE rows' = rows \cup {row} /\ Watch(r, row.name, client[r][row.name]) /\ UNCHANGED client
  <2>1. \A m \in Names : informer'[r][m] = IF m = row.name THEN row.id ELSE informer[r][m]
    BY <1>1, <1>4, ConnectStep DEF IInv
  <2>2. WatchesAgree(r)'
    BY <1>1, <1>3, <1>4, <2>1 DEF Agrees, WatchesAgree
  <2>3. ConnectionsAgree(r)'
    BY <1>1, <1>3, <1>4 DEF Agrees, ConnectionsAgree
  <2>4. QED
    BY <1>2, <2>2, <2>3 DEF Agrees
<1>5. CASE Disconnect(r, row.name) /\ UNCHANGED informer
  <2>1. \A m \in Names : client'[r][m] = IF m = row.name THEN None ELSE client[r][m]
    BY <1>1, <1>5, ConnectStep DEF Disconnect, IInv
  <2>2. WatchesAgree(r)'
    BY <1>3, <1>5 DEF Agrees, WatchesAgree
  <2>3. ConnectionsAgree(r)'
    BY <1>1, <1>3, <2>1 DEF Agrees, ConnectionsAgree
  <2>4. QED
    BY <1>2, <2>2, <2>3 DEF Agrees
<1>6. QED
  BY <1>4, <1>5 DEF AddCreate, Succeeds

LEMMA RemoveAgrees ==
  ASSUME IInv, NEW r \in Replicas, Agrees(r), (\E x \in rows : RemoveStop(r, x)) \/ RemoveDelete(r)
  PROVE  Agrees(r)'
<1>1. ASSUME NEW x \in rows, RemoveStop(r, x) PROVE Agrees(r)'
  <2>1. Watch(r, x.name, None) /\ Connect(r, x.name, None) /\ rows' = rows /\ x.name \in Names
        /\ ~Adding(r)
    BY <1>1 DEF RemoveStop, StopForCluster, IInv, TypeOK, Rows, Adding
  <2>2. job'[r].pc = "removing" /\ job'[r].row = x /\ job'[r].todo = {}
    BY <1>1 DEF RemoveStop, IInv, TypeOK, Idle
  <2>3. \A m \in Names : /\ client'[r][m] = IF m = x.name THEN None ELSE client[r][m]
                         /\ informer'[r][m] = IF m = x.name THEN None ELSE informer[r][m]
    BY <2>1, ConnectStep DEF IInv
  <2>4. WatchesAgree(r)' /\ ConnectionsAgree(r)'
    BY <2>1, <2>3 DEF Agrees, WatchesAgree, ConnectionsAgree
  <2>5. JobAgrees(r)'
    BY <2>1, <2>2, <2>3 DEF JobAgrees, Adding, Unused
  <2>6. QED
    BY <2>4, <2>5 DEF Agrees
<1>2. CASE RemoveDelete(r)
  <2> DEFINE row == job[r].row
  <2>1. /\ rows' = rows \/ rows' = {x \in rows : x.id # row.id}
        /\ Return(r) /\ ~Adding(r) /\ UNCHANGED <<client, informer>>
        /\ row \in rows /\ Unused(r, row.name)
    BY <1>2 DEF RemoveDelete, Remaining, Succeeds, Fails, Adding, Agrees, JobAgrees
  <2>2. \A x \in rows : x.id = row.id => x = row
    BY <2>1 DEF IInv, TypeOK
  <2>3. WatchesAgree(r)' /\ ConnectionsAgree(r)'
    BY <2>1, <2>2 DEF Agrees, WatchesAgree, ConnectionsAgree, Unused
  <2>4. job'[r].pc = "idle" /\ job'[r].todo = {}
    BY <2>1, IdleJob DEF IInv
  <2>5. QED
    BY <2>3, <2>4 DEF Agrees, JobAgrees, Adding
<1>3. QED
  BY <1>1, <1>2

LEMMA ListAgrees ==
  ASSUME IInv, NEW r \in Replicas, Agrees(r), RefreshHealth(r) \/ InitClusters(r)
  PROVE  Agrees(r)'
<1>1. /\ job[r].pc \in {"idle", "down"} /\ ~Adding(r) /\ UNCHANGED <<rows, client, informer>>
  BY DEF RefreshHealth, InitClusters, Adding
<1>2. WatchesAgree(r)' /\ ConnectionsAgree(r)'
  BY <1>1 DEF Agrees, WatchesAgree, ConnectionsAgree
<1>3. /\ job'[r].pc \in {"idle", "refreshing"} /\ job'[r].todo \subseteq rows
      /\ job[r].pc = "idle" => job'[r].todo = {} \/ ~job'[r].boot
  <2>1. CASE Return(r)
    BY <2>1, IdleJob DEF IInv
  <2>2. ASSUME NEW boot \in BOOLEAN, rows # {}, job[r].pc = "idle" => ~boot,
               job' = [job EXCEPT ![r] = [Idle EXCEPT !.pc = "refreshing", !.todo = rows, !.boot = boot]]
        PROVE  job'[r].pc = "refreshing" /\ job'[r].todo = rows /\ job'[r].boot = boot
    BY <2>2 DEF IInv, TypeOK, Idle
  <2>3. \/ Return(r)
        \/ \E boot \in BOOLEAN : /\ rows # {} /\ (job[r].pc = "idle" => ~boot)
                                 /\ job' = [job EXCEPT ![r] = [Idle EXCEPT !.pc = "refreshing", !.todo = rows, !.boot = boot]]
    BY DEF RefreshHealth, InitClusters, List, Return
  <2>4. QED
    BY <2>1, <2>2, <2>3
<1>4. job[r].pc = "down" => \A n \in Names : Unused(r, n)
  BY DEF Agrees, JobAgrees
<1>5. JobAgrees(r)'
  <2>1. \A x \in rows : x.name \in Names
    BY DEF IInv, TypeOK, Rows
  <2>2. job'[r].boot => \A x \in job'[r].todo : Unused(r, x.name)'
    BY <1>1, <1>3, <1>4, <2>1 DEF Unused
  <2>3. QED
    BY <1>1, <1>3, <2>2 DEF JobAgrees, Adding
<1>6. QED
  BY <1>2, <1>5 DEF Agrees

\* The row in hand is the only one of its name, and the others are of others.
LEMMA InHand ==
  ASSUME IInv, NEW r \in Replicas, Agrees(r), NEW c \in job[r].todo
  PROVE  /\ c \in rows /\ c \in Rows /\ c.name \in Names /\ c.id \in Ids
         /\ \A x \in rows : x.name = c.name \/ x.id = c.id => x = c
BY DEF IInv, TypeOK, Rows, Agrees, JobAgrees

LEMMA ReconnectFailsAgrees ==
  ASSUME IInv, NEW r \in Replicas, Agrees(r), NEW c \in job[r].todo, ReconnectFails(r, c)
  PROVE  Agrees(r)'
<1>1. /\ job[r].pc = "refreshing" /\ ~Adding(r) /\ UNCHANGED <<rows, client, informer>>
  BY DEF ReconnectFails, Adding
<1>2. WatchesAgree(r)' /\ ConnectionsAgree(r)'
  BY <1>1 DEF Agrees, WatchesAgree, ConnectionsAgree
<1>3. job[r].todo \subseteq rows /\ (job[r].boot => \A x \in job[r].todo : Unused(r, x.name))
  BY DEF Agrees, JobAgrees
<1>4. CASE NextRow(r, c)
  <2>1. /\ job'[r].pc \in {"idle", "refreshing"} /\ job'[r].todo = job[r].todo \ {c}
        /\ job'[r].todo # {} => job'[r].boot = job[r].boot
    BY <1>4, NextRowJob DEF IInv
  <2>2. JobAgrees(r)'
    BY <1>1, <1>3, <2>1 DEF JobAgrees, Adding, Unused
  <2>3. QED
    BY <1>2, <2>2 DEF Agrees
<1>5. CASE job[r].boot /\ ThenSave(r, c, "unhealthy", FALSE)
  <2>1. PICK start \in BOOLEAN : start = FALSE
    OBVIOUS
  <2>2. /\ job'[r].pc = "saving" /\ job'[r].todo = job[r].todo \ {c}
        /\ job'[r].boot = job[r].boot /\ job'[r].start = start
        /\ job'[r].row.id = c.id /\ job'[r].row.name = c.name /\ job'[r].row.status = "unhealthy"
    BY <1>5, <2>1, InHand, SaveJob DEF IInv
  <2>3. SaveAgrees(r)'
    BY <1>1, <1>3, <1>5, <2>1, <2>2, InHand DEF SaveAgrees, Unused
  <2>4. JobAgrees(r)'
    BY <1>1, <1>3, <2>2, <2>3 DEF JobAgrees, Adding, Unused
  <2>5. QED
    BY <1>2, <2>4 DEF Agrees
<1>6. QED
  BY <1>4, <1>5 DEF ReconnectFails

LEMMA ProbeRowAgrees ==
  ASSUME IInv, NEW r \in Replicas, Agrees(r), NEW c \in job[r].todo, NEW upgraded \in BOOLEAN,
         ProbeRow(r, c, upgraded)
  PROVE  Agrees(r)'
<1> DEFINE k == IF MustConnect(r, c) THEN c.id ELSE client[r][c.name]
<1>1. /\ job[r].pc = "refreshing" /\ ~Adding(r) /\ rows' = rows /\ Connect(r, c.name, k)
      /\ \/ /\ StopForCluster(r, c.name)
            /\ NextRow(r, c) \/ ThenSave(r, c, "unhealthy", FALSE)
         \/ UNCHANGED informer /\ ThenSave(r, c, "healthy", NeedsStart(r, c))
         \/ /\ UNCHANGED informer \/ (Watch(r, c.name, k) /\ c.status = "healthy")
            /\ NextRow(r, c)
  BY DEF ProbeRow, Adding
<1>2. /\ c \in rows /\ c \in Rows /\ c.name \in Names /\ c.id \in Ids
      /\ \A x \in rows : x.name = c.name \/ x.id = c.id => x = c
  BY InHand
<1>3. k = c.id
  BY <1>1, <1>2 DEF MustConnect, Agrees, ConnectionsAgree
<1>4. /\ job[r].todo \subseteq rows /\ (job[r].boot => \A x \in job[r].todo : Unused(r, x.name))
      /\ informer[r][c.name] # None => informer[r][c.name] = c.id /\ c.status = "healthy"
  BY <1>2 DEF Agrees, JobAgrees, WatchesAgree
<1> HIDE DEF k
<1>5. \A m \in Names : client'[r][m] = IF m = c.name THEN c.id ELSE client[r][m]
  BY <1>1, <1>2, <1>3, ConnectStep DEF IInv
<1>6. ConnectionsAgree(r)'
  BY <1>1, <1>2, <1>5 DEF Agrees, ConnectionsAgree
<1>7. ASSUME NEW i \in Ids \cup {None}, i # None => i = c.id /\ c.status = "healthy",
             \A m \in Names : informer'[r][m] = IF m = c.name THEN i ELSE informer[r][m]
      PROVE  /\ WatchesAgree(r)'
             /\ NextRow(r, c) => JobAgrees(r)'
             /\ \A status \in {"healthy", "unhealthy"}, start \in BOOLEAN :
                  (/\ ThenSave(r, c, status, start)
                   /\ (start => status = "healthy") /\ (status = "unhealthy" => i = None))
                  => JobAgrees(r)'
  <2>1. WatchesAgree(r)'
    BY <1>1, <1>2, <1>7 DEF Agrees, WatchesAgree
  <2>2. job[r].boot => \A x \in job[r].todo \ {c} : Unused(r, x.name)'
    <3>1. \A x \in job[r].todo \ {c} : x.name # c.name /\ x.name \in Names
      BY <1>2, <1>4 DEF IInv, TypeOK, Rows
    <3>2. QED
      BY <1>4, <1>5, <1>7, <3>1 DEF Unused
  <2>3. ASSUME NextRow(r, c) PROVE JobAgrees(r)'
    <3>1. /\ job'[r].pc \in {"idle", "refreshing"} /\ job'[r].todo = job[r].todo \ {c}
          /\ job'[r].todo # {} => job'[r].boot = job[r].boot
      BY <2>3, NextRowJob DEF IInv
    <3>2. QED
      BY <1>1, <1>4, <2>2, <3>1 DEF JobAgrees, Adding
  <2>4. ASSUME NEW status \in {"healthy", "unhealthy"}, NEW start \in BOOLEAN, ThenSave(r, c, status, start),
               start => status = "healthy", status = "unhealthy" => i = None
        PROVE  JobAgrees(r)'
    <3>1. /\ job'[r].pc = "saving" /\ job'[r].todo = job[r].todo \ {c}
          /\ job'[r].boot = job[r].boot /\ job'[r].start = start
          /\ job'[r].row.id = c.id /\ job'[r].row.name = c.name /\ job'[r].row.status = status
      BY <1>2, <2>4, SaveJob DEF IInv
    <3>2. SaveAgrees(r)'
      BY <1>1, <1>2, <1>4, <1>5, <1>7, <2>4, <3>1 DEF SaveAgrees
    <3>3. QED
      BY <1>1, <1>4, <2>2, <3>1, <3>2 DEF JobAgrees, Adding
  <2>5. QED
    BY <2>1, <2>3, <2>4
<1>8. CASE StopForCluster(r, c.name) /\ (NextRow(r, c) \/ ThenSave(r, c, "unhealthy", FALSE))
  <2>1. \A m \in Names : informer'[r][m] = IF m = c.name THEN None ELSE informer[r][m]
    BY <1>2, <1>8, ConnectStep DEF StopForCluster, IInv
  <2>2. PICK start \in BOOLEAN : start = FALSE
    OBVIOUS
  <2>3. WatchesAgree(r)' /\ JobAgrees(r)'
    BY <1>7, <1>8, <2>1, <2>2
  <2>4. QED
    BY <1>6, <2>3 DEF Agrees
<1>9. CASE UNCHANGED informer
  <2>1. informer[r][c.name] \in Ids \cup {None}
    BY <1>2 DEF IInv, TypeOK
  <2>2. \A m \in Names : informer'[r][m] = IF m = c.name THEN informer[r][c.name] ELSE informer[r][m]
    BY <1>9
  <2>3. NeedsStart(r, c) \in BOOLEAN
    BY DEF NeedsStart, MustConnect, IInv, TypeOK, Job
  <2>4. /\ WatchesAgree(r)' /\ (NextRow(r, c) => JobAgrees(r)')
        /\ \A start \in BOOLEAN : ThenSave(r, c, "healthy", start) => JobAgrees(r)'
    BY <1>4, <1>7, <2>1, <2>2
  <2>5. CASE NextRow(r, c) \/ ThenSave(r, c, "healthy", NeedsStart(r, c))
    BY <1>6, <2>3, <2>4, <2>5 DEF Agrees
  <2>6. QED
    BY <1>1, <1>8, <2>5
<1>10. CASE Watch(r, c.name, k) /\ c.status = "healthy" /\ NextRow(r, c)
  <2>1. \A m \in Names : informer'[r][m] = IF m = c.name THEN c.id ELSE informer[r][m]
    BY <1>2, <1>3, <1>10, ConnectStep DEF IInv
  <2>2. WatchesAgree(r)' /\ JobAgrees(r)'
    BY <1>2, <1>7, <1>10, <2>1
  <2>3. QED
    BY <1>6, <2>2 DEF Agrees
<1>11. QED
  BY <1>1, <1>8, <1>9, <1>10

LEMMA SaveStatusAgrees ==
  ASSUME IInv, NEW r \in Replicas, Agrees(r), SaveStatus(r)
  PROVE  Agrees(r)'
<1> DEFINE row == job[r].row
<1>1. /\ job[r].pc = "saving" /\ ~Adding(r) /\ NextRow(r, row) /\ client' = client
      /\ rows' = rows \/ rows' = SaveRow(rows, row)
      /\ \/ UNCHANGED informer
         \/ /\ job[r].start /\ rows' = SaveRow(rows, row)
            /\ Watch(r, row.name, client[r][row.name])
  BY DEF SaveStatus, Succeeds, Fails, Adding
<1>2. /\ row \in Rows /\ row.name \in Names /\ row.id \in Ids /\ row.status \in {"healthy", "unhealthy"}
      /\ job[r].todo \subseteq rows
      /\ \A x \in job[r].todo : x.id # row.id
      /\ row.status = "unhealthy" => informer[r][row.name] = None
      /\ job[r].start => row.status = "healthy" /\ client[r][row.name] = row.id
      /\ job[r].boot => \A x \in job[r].todo : Unused(r, x.name)
  BY <1>1 DEF IInv, JobKnown, Rows, Agrees, JobAgrees, SaveAgrees
<1>3. \A x \in rows : x.name = row.name <=> x.id = row.id
  BY <1>1 DEF IInv, TypeOK, Agrees, JobAgrees, SaveAgrees
<1>4. \A x \in rows : x.id # row.id => x \in rows'
  BY <1>1 DEF SaveRow
<1>5. rows' = SaveRow(rows, row) => row \in rows'
  BY DEF SaveRow
<1>6. ConnectionsAgree(r)'
  BY <1>1, <1>2, <1>3, <1>4, <1>5 DEF Agrees, ConnectionsAgree
<1>7. ASSUME NEW n \in Names, n # row.name, informer'[r][n] = informer[r][n]
      PROVE  informer'[r][n] # None => \E x \in rows' : x.name = n /\ x.id = informer'[r][n] /\ x.status = "healthy"
  BY <1>3, <1>4, <1>7 DEF Agrees, WatchesAgree
<1>8. /\ WatchesAgree(r)'
      /\ \A n \in Names : n # row.name => informer'[r][n] = informer[r][n]
  <2>1. CASE UNCHANGED informer
    <3>1. informer[r][row.name] # None => informer[r][row.name] = row.id /\ row.status = "healthy"
      BY <1>2, <1>3 DEF Agrees, WatchesAgree
    <3>2. informer'[r][row.name] # None =>
            \E x \in rows' : x.name = row.name /\ x.id = informer'[r][row.name] /\ x.status = "healthy"
      <4>1. CASE rows' = rows
        BY <1>2, <2>1, <4>1 DEF Agrees, WatchesAgree
      <4>2. CASE rows' = SaveRow(rows, row)
        BY <1>5, <2>1, <3>1, <4>2
      <4>3. QED
        BY <1>1, <4>1, <4>2
    <3>3. QED
      BY <1>7, <2>1, <3>2 DEF WatchesAgree
  <2>2. CASE job[r].start /\ rows' = SaveRow(rows, row) /\ Watch(r, row.name, client[r][row.name])
    <3>1. \A m \in Names : informer'[r][m] = IF m = row.name THEN row.id ELSE informer[r][m]
      BY <1>2, <2>2, ConnectStep DEF IInv
    <3>2. QED
      BY <1>2, <1>5, <1>7, <2>2, <3>1 DEF WatchesAgree
  <2>3. QED
    BY <1>1, <2>1, <2>2
<1>9. JobAgrees(r)'
  <2>1. /\ job'[r].pc \in {"idle", "refreshing"} /\ job'[r].todo = job[r].todo \ {row}
        /\ job'[r].todo # {} => job'[r].boot = job[r].boot
    BY <1>1, NextRowJob DEF IInv
  <2>2. \A x \in job[r].todo : x.name # row.name /\ x.name \in Names /\ x \in rows'
    BY <1>2, <1>3, <1>4 DEF IInv, TypeOK, Rows
  <2>3. job[r].boot => \A x \in job[r].todo : Unused(r, x.name)'
    BY <1>1, <1>2, <1>8, <2>2 DEF Unused
  <2>4. QED
    BY <2>1, <2>2, <2>3 DEF JobAgrees, Adding
<1>10. QED
  BY <1>6, <1>8, <1>9 DEF Agrees

LEMMA CrashAgrees ==
  ASSUME IInv, NEW r \in Replicas, Crash(r)
  PROVE  Agrees(r)'
<1>1. job'[r].pc = "down" /\ job'[r].todo = {} /\ \A n \in Names : Unused(r, n)'
  BY DEF Crash, IInv, TypeOK, Down, Idle, Unused
<1>2. WatchesAgree(r)' /\ ConnectionsAgree(r)'
  BY <1>1 DEF WatchesAgree, ConnectionsAgree, Unused
<1>3. JobAgrees(r)'
  BY <1>1 DEF JobAgrees, Adding
<1>4. QED
  BY <1>2, <1>3 DEF Agrees

LEMMA NextAgrees ==
  ASSUME NEW r, Replicas = {r}, IInv, Agrees(r), [Next]_vars
  PROVE  Agrees(r)'
<1>1. r \in Replicas /\ \A s \in Replicas : s = r
  OBVIOUS
<1>2. ASSUME UNCHANGED <<rows, client, informer, job>> PROVE Agrees(r)'
  BY <1>2 DEF Agrees, WatchesAgree, ConnectionsAgree, JobAgrees, SaveAgrees, Unused, Adding
<1>3. CASE UNCHANGED vars
  BY <1>2, <1>3 DEF vars
<1>4. CASE (\E n \in Names : AddConnect(r, n)) \/ AddProbe(r) \/ AddCreate(r)
  BY <1>1, <1>4, AddConnectAgrees, AddProbeAgrees, AddCreateAgrees
<1>5. CASE (\E x \in rows : RemoveStop(r, x)) \/ RemoveDelete(r)
  BY <1>1, <1>5, RemoveAgrees
<1>6. CASE RefreshHealth(r) \/ InitClusters(r) \/ Crash(r)
  BY <1>1, <1>6, ListAgrees, CrashAgrees
<1>7. CASE Refresh(r)
  BY <1>1, <1>7, ReconnectFailsAgrees, ProbeRowAgrees, SaveStatusAgrees DEF Refresh
<1>8. ASSUME NEW k \in Ids, Outage(k) \/ Recovery(k) PROVE Agrees(r)'
  BY <1>2, <1>8 DEF Outage, Recovery
<1>9. QED
  BY <1>1, <1>3, <1>4, <1>5, <1>6, <1>7, <1>8 DEF Next, Proceed

LEMMA InitAgrees ==
  ASSUME NEW r \in Replicas, Init
  PROVE  Agrees(r)
<1>1. job[r].pc = "down" /\ job[r].todo = {} /\ \A n \in Names : Unused(r, n)
  BY DEF Init, Down, Idle, Unused
<1>2. WatchesAgree(r) /\ ConnectionsAgree(r)
  BY <1>1 DEF WatchesAgree, ConnectionsAgree, Unused
<1>3. JobAgrees(r)
  BY <1>1 DEF JobAgrees, Adding
<1>4. QED
  BY <1>2, <1>3 DEF Agrees

\* With one replica the table, the connections and the informers agree whenever
\* no job runs, whatever failed before: a connection has the credentials of the
\* row of its name, and a cluster shown as unhealthy is not watched.
THEOREM OneReplicaAgrees ==
  ASSUME NEW r, Replicas = {r}
  PROVE  Spec => []ConnectedAsSaved
<1>1. Init => Agrees(r)
  BY InitAgrees
<1>2. IInv /\ Agrees(r) /\ [Next]_vars => Agrees(r)'
  BY NextAgrees
<1>3. Agrees(r) => ConnectedAsSaved
  BY DEF Agrees, WatchesAgree, ConnectionsAgree, Adding, ConnectedAsSaved
<1>4. QED
  BY <1>1, <1>2, <1>3, Invariance, PTL DEF Spec
=============================================================================
