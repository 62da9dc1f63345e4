--------------------------- MODULE PackageService ---------------------------
(***************************************************************************)
(* Helm releases: src/internal/packages/service.go with the adapter        *)
(* (helm_adapter.go), the catalog's uploads and sources (catalog.go), the  *)
(* executor of queued tasks (operations.go) and the requests that queue    *)
(* them (handler/package_handler.go).  Previews, locks and uploads live in *)
(* one replica; releases, sources and queued tasks are shared.             *)
(* The operation manager executes a queued task at most once (see          *)
(* OperationManager); here it is the step from "queued" to a replica.  The *)
(* row of a task that failed retryably stays, and each retry of it queues  *)
(* a copy (operation/manager.go:193-228); its retention is left out.       *)
(***************************************************************************)
EXTENDS Naturals, Sequences, FiniteSets

CONSTANTS
  Replicas, Users, Releases, NoUser, None,
  Admins,       \* users whose role may execute critical changes
  Charts,       \* what a request can name: a chart and version of a repository
  Uploaders,    \* users who upload charts
  Masked,       \* values that end in Secrets only, which a dry run hides
  Critical,     \* contents whose rendered manifest has a critical risk
  Slots,        \* bound: executions at a time
  MaxGrants,    \* capacity: 5000 pending previews of a replica
  MaxRequests,  \* bound: what users and schedulers ask for
  MaxEvents     \* bound: failures, crashes, and changes of charts and roles

ASSUME PackageAssumption ==
  /\ NoUser \notin Users /\ None \notin Users \cup Charts /\ Admins \subseteq Users /\ Charts \cap Users = {}
  /\ Uploaders \subseteq Users /\ Masked \subseteq Charts \cup Users /\ Slots \subseteq Nat /\ IsFiniteSet(Releases)
  /\ Critical \subseteq ((Charts \cup Users) \X Nat) /\ None \notin Critical
  /\ {MaxGrants, MaxRequests, MaxEvents} \subseteq Nat

VARIABLES
  content,   \* what the repository serves for a chart now
  release,   \* the cluster: status and revisions of each release
  source,    \* the tracked source of each release
  allowed,   \* users whose role permits changes of releases
  uploads,   \* per replica: the users whose uploaded chart it holds
  grants,    \* per replica: Service.previews
  active,    \* per replica: Service.active
  task,      \* the executions that are open: queued or running
  refused,   \* the rows that failed with an error that may be retried
  previews,  \* numbers the tokens and the retries
  requests, events,  \* counters of the bounds
  started    \* history: the tokens Helm was started with, at which attempt

world   == <<content, allowed>>
cluster == <<release, source, started>>
memory  == <<uploads, grants, active, previews>>
pstate  == <<world, cluster, memory, task, refused, events>>
pvars   == <<pstate, requests>>

-----------------------------------------------------------------------------
\* A request names a repository's chart or a user's upload.
Sources  == Charts \cup Users
Change   == [op: {"install", "upgrade"}, release: Releases, chart: Sources]

\* What a render depends on: the chart, and for an upgrade the values in use
\* (ResetThenReuseValues), which stand for the charts they were given with.
Served(s) == <<s, IF s \in Charts THEN content[s] ELSE 0>>
Current(rel) == release[rel].history[Len(release[rel].history)]
Render(ch, loaded) ==
  [content |-> loaded,
   values  |-> {ch.chart} \cup (IF ch.op = "install" THEN {} ELSE Current(ch.release).values)]

\* What changeDigest covers of a render: not what HideSecret leaves out.
Shown(rendered) == [rendered EXCEPT !.values = @ \ Masked]

Ended == {"succeeded", "failed"}

NoTask == [pc |-> "free"]
NewTask(op, user, rel, ch, revision, grant) ==
  [op |-> op, user |-> user, release |-> rel, chart |-> ch, revision |-> revision, grant |-> grant,
   attempt |-> 0, pc |-> "queued", replica |-> None, loaded |-> None, outcome |-> "failed", inline |-> FALSE]
NoGrant == [token |-> 0, user |-> None, change |-> None, digest |-> None]

Free == {i \in Slots : task[i] = NoTask}
Open == Slots \ Free
Add(t) == \E i \in Free : (\A j \in Free : i <= j) /\ task' = [task EXCEPT ![i] = t]

\* Queued by OperationManager.Submit.
Asks == requests < MaxRequests /\ requests' = requests + 1
Happens == events < MaxEvents /\ events' = events + 1

Submit(t) == Asks /\ Add(t)

\* An operation that has ended is not looked at again; the upgrade manager
\* takes the result of its own executions.
Ends(i, pc) == task' = [task EXCEPT ![i] = IF @.inline THEN [@ EXCEPT !.pc = pc] ELSE NoTask]
Move(i, pc) == task' = [task EXCEPT ![i].pc = pc]

\* The executor's failure is one that may be retried; the upgrade manager's
\* own executions have no row.
Refuse(i) ==
  IF task[i].inline
  THEN Ends(i, "failed") /\ UNCHANGED refused
  ELSE /\ refused' = refused \cup
            {[task[i] EXCEPT !.pc = "queued", !.replica = None, !.loaded = None, !.outcome = "failed"]}
       /\ task' = [task EXCEPT ![i] = NoTask]

\* What users may have installed and upgraded with another client before: a
\* chart, and then other values for it.
Absent == [status |-> "absent", history |-> <<>>]
Installed(c, values) == [content |-> <<c, 0>>, values |-> values]
Upgraded(c, u) == [status |-> "deployed", history |-> <<Installed(c, {c}), Installed(c, {c, u})>>]

PInit ==
  /\ content = [c \in Charts |-> 0]
  /\ release \in [Releases -> {Absent} \cup {Upgraded(c, u) : c \in Charts, u \in Uploaders}]
  /\ source = [rel \in Releases |-> None]
  /\ allowed = Users \cup {NoUser}
  /\ uploads = [r \in Replicas |-> {}]
  /\ grants = [r \in Replicas |-> {}]
  /\ active = [r \in Replicas |-> {}]
  /\ task = [i \in Slots |-> NoTask] /\ refused = {}
  /\ previews = 0 /\ requests = 0 /\ events = 0
  /\ started = {}

-----------------------------------------------------------------------------
(* The catalog.                                                            *)

Upload(r, u) ==
  /\ u \notin uploads[r] /\ Asks
  /\ uploads' = [uploads EXCEPT ![r] = @ \cup {u}]
  /\ UNCHANGED <<world, cluster, grants, active, previews, task, refused, events>>

\* pruneUploadsLocked, thirty minutes after an upload.
UploadExpires(r, u) ==
  /\ u \in uploads[r]
  /\ uploads' = [uploads EXCEPT ![r] = @ \ {u}]
  /\ UNCHANGED <<world, cluster, grants, active, previews, task, refused, requests, events>>

\* AuthorizeUpload, and loadChart for an upload.
MayUse(r, u, s) == s \in Charts \/ (s \in uploads[r] /\ (s = u \/ u \in Admins \cup {NoUser}))
Loads(r, s)     == s \in Charts \/ s \in uploads[r]

-----------------------------------------------------------------------------
(* Preview and confirmation.                                               *)

\* Helm's own conditions, for a dry run and for a real one.
HelmAccepts(op, rel) ==
  CASE op = "install"  -> release[rel].status = "absent"
    [] op = "upgrade"  -> release[rel].status \in {"deployed", "failed"}
    [] op = "rollback" -> release[rel].status # "absent"
    [] op = "remove"   -> release[rel].status # "absent"

\* NoUser is the automatic upgrade's actor, a super-admin.
IsAdmin(u) == u \in Admins \cup {NoUser}

CanExecuteAnything(u, rendered) == TRUE  \* mutant: critical risks are only displayed
CanExecute(u, rendered) == rendered.content \notin Critical \/ IsAdmin(u)

\* What Preview returns: a grant for the change as it renders now.
Previewed(r, u, ch, token) ==
  [token |-> token, user |-> u, change |-> ch, digest |-> Shown(Render(ch, Served(ch.chart)))]

MayPreview(r, u, ch) ==
  /\ u \in allowed /\ MayUse(r, u, ch.chart) /\ Loads(r, ch.chart)
  /\ HelmAccepts(ch.op, ch.release)

\* A preview that grants nothing changes nothing.
IssueGrant(r, u, ch) ==
  LET g == Previewed(r, u, ch, previews + 1) IN
  /\ MayPreview(r, u, ch) /\ CanExecute(u, g.digest)
  /\ Cardinality(grants[r]) < MaxGrants
  /\ previews' = previews + 1
  /\ grants' = [grants EXCEPT ![r] = @ \cup {g}]

Preview(r, u, ch) ==
  /\ Asks /\ IssueGrant(r, u, ch)
  /\ UNCHANGED <<world, cluster, uploads, active, task, refused, events>>

\* Ten minutes pass: from then on the grant is as good as gone, for
\* PrepareChange and for the count of the pending ones.
PreviewExpires(r, g) ==
  /\ g \in grants[r]
  /\ grants' = [grants EXCEPT ![r] = @ \ {g}]
  /\ UNCHANGED <<world, cluster, uploads, active, previews, task, refused, requests, events>>

KeepGrant(r, g) == UNCHANGED grants  \* mutant: the grant is looked up and left
Consume(r, g) == grants' = [grants EXCEPT ![r] = @ \ {g}]

MatchesAnyUser(g, u, ch) == g.change = ch  \* mutant: the owner is not compared
Matches(g, u, ch) == g.user = u /\ g.change = ch

\* PrepareChange and Submit: the grant is gone whatever follows.
Confirm(r, u, g, ch) ==
  /\ u \in allowed /\ MayUse(r, u, ch.chart)
  /\ g \in grants[r]
  /\ Consume(r, g)
  /\ \/ /\ Matches(g, u, ch)
        /\ Submit(NewTask(ch.op, u, ch.release, ch.chart, 0, g))
        /\ UNCHANGED events
     \/ /\ Matches(g, u, ch)
        /\ Happens
        /\ UNCHANGED <<task, requests>>
     \/ /\ ~Matches(g, u, ch)
        /\ UNCHANGED <<task, requests, events>>
  /\ UNCHANGED <<world, cluster, uploads, active, previews, refused>>

\* Rollback and Remove are queued without a preview, for any release and revision.
QueueTask(u, op, rel, revision) ==
  /\ u \in Users
  /\ \/ op = "rollback" /\ revision >= 1
     \/ op = "remove" /\ revision = 0
  /\ Submit(NewTask(op, u, rel, None, revision, NoGrant))
  /\ UNCHANGED <<world, cluster, memory, refused, events>>

\* A failed row that may be retried is copied, with its payload and digest,
\* any number of times.
Retry(t) ==
  /\ t \in refused
  /\ previews' = previews + 1
  /\ Submit([t EXCEPT !.attempt = previews + 1])
  /\ UNCHANGED <<world, cluster, uploads, grants, active, refused, events>>

-----------------------------------------------------------------------------
(* Execution.                                                              *)

Authorized(r, t) == t.user \in allowed /\ (t.chart = None \/ MayUse(r, t.user, t.chart))
RevisionExists(t) == t.op = "rollback" => t.revision <= Len(release[t.release].history)

LockFree(r, rel) == TRUE  \* mutant: the lock is taken and never looked at
MayLock(r, rel) == rel \notin active[r]

\* ExecutePreparedChange, Rollback or Remove up to the lock of mutate; of a
\* queued task, the claimed row may fail to load.
Begin(r, i) ==
  LET t == task[i]
      legal == Authorized(r, t) /\ RevisionExists(t)
  IN
  /\ t.pc = "queued" /\ t.replica \in {None, r}
  /\ \/ /\ ~legal
        /\ Ends(i, "failed")
        /\ UNCHANGED <<active, refused, events>>
     \/ /\ ~t.inline /\ Happens
        /\ Refuse(i)
        /\ UNCHANGED active
     \/ /\ legal /\ ~MayLock(r, t.release)
        /\ Refuse(i)
        /\ UNCHANGED <<active, events>>
     \/ /\ legal /\ MayLock(r, t.release)
        /\ task' = [task EXCEPT ![i].pc = IF t.op \in {"install", "upgrade"} THEN "locked" ELSE "verified",
                                ![i].replica = r]
        /\ active' = [active EXCEPT ![r] = @ \cup {t.release}]
        /\ UNCHANGED <<refused, events>>
  /\ UNCHANGED <<world, cluster, uploads, grants, previews, requests>>

AnyDigest(t) == TRUE  \* mutant: the digest is not compared
SameDigest(t) == Shown(Render(t, Served(t.chart))) = t.grant.digest

Return(i, outcome) == task' = [task EXCEPT ![i].pc = "returned", ![i].outcome = outcome]

\* mapAdapterError: a name in use is a conflict, which may be retried.
Refusal(t) == IF t.op = "install" /\ release[t.release].status # "absent" THEN "conflict" ELSE "failed"

\* Install and Upgrade of the adapter: load, render again, compare.
Verify(i) ==
  LET t == task[i]
      loads == Loads(t.replica, t.chart)
      fits  == HelmAccepts(t.op, t.release) /\ SameDigest(t)
  IN
  /\ t.pc = "locked"
  /\ IF loads /\ fits
     THEN task' = [task EXCEPT ![i].pc = "verified", ![i].loaded = Served(t.chart)]
     ELSE Return(i, IF loads THEN Refusal(t) ELSE "failed")
  /\ UNCHANGED <<world, cluster, memory, refused, requests, events>>

\* Helm takes the release and records the new revision as pending.
HelmStarts(i) ==
  LET t == task[i]  rel == t.release  h == release[rel].history IN
  /\ t.pc = "verified"
  /\ \/ /\ ~HelmAccepts(t.op, rel)
        /\ Return(i, Refusal(t)) /\ UNCHANGED <<release, started>>
     \/ /\ HelmAccepts(t.op, rel)
        /\ Move(i, "helm")
        /\ started' = started \cup ({<<t.grant.token, t.attempt>>} \ ({0} \X Nat))
        /\ release' = [release EXCEPT ![rel] =
             [status  |-> "pending",
              history |-> CASE t.op = "install"  -> <<Render(t, t.loaded)>>
                            [] t.op = "upgrade"  -> Append(h, Render(t, t.loaded))
                            [] t.op = "rollback" -> Append(h, h[IF t.revision <= Len(h) THEN t.revision ELSE 1])
                            [] t.op = "remove"   -> h]]
  /\ UNCHANGED <<world, source, memory, refused, requests, events>>

\* Helm ends, and fails if another replica has removed the release meanwhile.
HelmEnds(i, ok) ==
  LET t == task[i]  rel == t.release  gone == release[rel].status = "absent" IN
  /\ t.pc = "helm"
  /\ ok => ~gone
  /\ IF ok \/ gone THEN UNCHANGED events ELSE Happens
  /\ Return(i, IF ok THEN "succeeded" ELSE "failed")
  /\ release' = [release EXCEPT ![rel] =
       IF gone \/ (ok /\ t.op = "remove") THEN Absent
       ELSE [@ EXCEPT !.status = IF ok THEN "deployed" ELSE "failed"]]
  /\ UNCHANGED <<world, source, started, memory, refused, requests>>

UnlockedOnSuccess(i) == IF task[i].outcome = "succeeded" THEN {task[i].release} ELSE {}  \* mutant: no defer
Unlocked(i) == {task[i].release}

\* mutate's deferred unlock.
Unlock(i) ==
  LET t == task[i] IN
  /\ t.pc = "returned"
  /\ active' = [active EXCEPT ![t.replica] = @ \ Unlocked(i)]
  /\ CASE t.outcome = "succeeded" /\ t.op # "rollback" -> Move(i, "source") /\ UNCHANGED refused
       [] t.outcome = "conflict" -> Refuse(i)
       [] OTHER -> Ends(i, t.outcome) /\ UNCHANGED refused
  /\ UNCHANGED <<world, cluster, uploads, grants, previews, requests, events>>

\* SaveReleaseSource or DeleteReleaseSource, whose error is ignored; the
\* source of an upload is not saved.
SaveSource(i, ok) ==
  LET t == task[i] IN
  /\ t.pc = "source"
  /\ IF ok THEN UNCHANGED events ELSE Happens
  /\ source' = IF ok /\ t.chart \notin Users
               THEN [source EXCEPT ![t.release] = t.chart] ELSE source
  /\ Ends(i, "succeeded")
  /\ UNCHANGED <<world, release, started, memory, refused, requests>>

\* CheckUpgrade with a source given by the user: it is saved if it is the
\* chart of the release.
CheckUpgrade(u, rel, s) ==
  /\ u \in allowed /\ s \in Charts /\ release[rel].status # "absent"
  /\ Current(rel).content[1] = s /\ Asks
  /\ source' = [source EXCEPT ![rel] = s]
  /\ UNCHANGED <<world, release, started, memory, task, refused, events>>

-----------------------------------------------------------------------------
(* The environment.                                                        *)

Publish(c) ==
  /\ Happens
  /\ content' = [content EXCEPT ![c] = @ + 1]
  /\ UNCHANGED <<allowed, cluster, memory, task, refused, requests>>

Revoke(u) ==
  /\ u \in allowed \ Admins /\ Happens
  /\ allowed' = allowed \ {u}
  /\ UNCHANGED <<content, cluster, memory, task, refused, requests>>

\* The operation manager marks what a dead replica ran as interrupted.
CrashEffect(r) ==
  /\ Happens
  /\ uploads' = [uploads EXCEPT ![r] = {}]
  /\ grants' = [grants EXCEPT ![r] = {}]
  /\ active' = [active EXCEPT ![r] = {}]
  /\ task' = [i \in Slots |-> IF i \in Open /\ task[i].replica = r THEN NoTask ELSE task[i]]
  /\ UNCHANGED <<world, cluster, previews, refused, requests>>

Execute ==
  \E i \in Open :
    \/ \E r \in Replicas : Begin(r, i)
    \/ Verify(i) \/ HelmStarts(i) \/ Unlock(i)
    \/ \E ok \in BOOLEAN : HelmEnds(i, ok) \/ SaveSource(i, ok)

Requests ==
  \/ \E r \in Replicas, u \in Users :
       \/ u \in Uploaders /\ (Upload(r, u) \/ UploadExpires(r, u))
       \/ \E ch \in Change : Preview(r, u, ch) \/ \E g \in grants[r] : Confirm(r, u, g, ch)
  \/ \E u \in Users, rel \in Releases :
       \/ \E op \in {"rollback", "remove"}, k \in 0..1 : QueueTask(u, op, rel, k)  \* bound: to revision 1
       \/ \E s \in Charts : CheckUpgrade(u, rel, s)
  \/ \E t \in refused : Retry(t)

Environment ==
  \/ \E c \in Charts : Publish(c)
  \/ \E u \in Users : Revoke(u)
  \/ \E r \in Replicas : \E g \in grants[r] : PreviewExpires(r, g)

=============================================================================
