--------------------------- MODULE UpgradeManager ---------------------------
(***************************************************************************)
(* Automatic Helm upgrades: src/internal/packages/upgrades.go, on top of   *)
(* PackageService.  A release has at most one policy here.  A check runs   *)
(* for the scheduler of a replica (actor NoUser, a super-admin) or for an  *)
(* administrator who asked for it; it holds the copy of the policy it      *)
(* loaded and never looks at the row again.  An administrator's save reads *)
(* the row and then writes all of it.                                      *)
(***************************************************************************)
EXTENDS PackageService

VARIABLES
  policy,  \* the table: the row of each release's policy
  edit,    \* per replica and administrator: the save that runs, with the row it read
  batch,   \* per replica: the due policies its scheduler has loaded, in order
  check    \* per replica and actor: the check that runs

avars == <<policy, edit, batch, check>>
vars  == <<pvars, avars>>

-----------------------------------------------------------------------------
NoPolicy == [id |-> 0, chart |-> None, enabled |-> FALSE, due |-> FALSE, status |-> "idle"]
NoEdit   == [release |-> None, row |-> NoPolicy]
NoCheck  == [pc |-> "none", id |-> 0, release |-> None, chart |-> None, grant |-> 0]
Actors   == Admins \cup {NoUser}

Init ==
  /\ PInit
  /\ policy = [rel \in Releases |-> NoPolicy]
  /\ edit = [r \in Replicas |-> [u \in Admins |-> NoEdit]]
  /\ batch = [r \in Replicas |-> <<>>]
  /\ check = [r \in Replicas |-> [a \in Actors |-> NoCheck]]

Present(rel) == policy[rel].id # 0
Loaded(rel) == [id |-> policy[rel].id, release |-> rel, chart |-> policy[rel].chart]
Start(r, a, item) ==
  /\ Asks
  /\ check' = [check EXCEPT ![r][a] =
    [pc |-> "compare", id |-> item.id, release |-> item.release, chart |-> item.chart, grant |-> 0]]
Goto(r, a, pc) == check' = [check EXCEPT ![r][a].pc = pc]

\* mutant: the update is tried again until a row has taken it
FinishWhenStored(r, a, status) ==
  LET k == check[r][a] IN
  /\ policy[k.release].id = k.id
  /\ policy' = [policy EXCEPT ![k.release].status = status, ![k.release].due = FALSE]
  /\ check' = [check EXCEPT ![r][a] = NoCheck]
\* update: Updates on the row's id, which does nothing if the row is gone.
Finish(r, a, status) ==
  LET k == check[r][a] IN
  /\ policy' = IF policy[k.release].id = k.id
               THEN [policy EXCEPT ![k.release].status = status, ![k.release].due = FALSE]
               ELSE policy
  /\ check' = [check EXCEPT ![r][a] = NoCheck]

-----------------------------------------------------------------------------
\* An id is a name: the least that no check still has stands for the next one.
Named == UNION {{check[r][a].id : a \in Actors} \cup {batch[r][i].id : i \in DOMAIN batch[r]} : r \in Replicas}
Fresh == {n \in 1..(requests + 1) : n \notin Named /\ \A m \in 1..(n - 1) : m \in Named}

\* Save of a policy that has no id yet.  Of one release there is a policy at
\* a time in this model, so none is created while a row of it is being saved.
Create(rel, c, enabled) ==
  /\ ~Present(rel) /\ \A r \in Replicas, u \in Admins : edit[r][u].release # rel
  /\ Asks
  /\ \E id \in Fresh :
       policy' = [policy EXCEPT ![rel] =
         [id |-> id, chart |-> c, enabled |-> enabled, due |-> TRUE, status |-> "idle"]]
  /\ UNCHANGED <<pstate, edit, batch, check>>

\* Save of a policy with an id reads the row,
BeginSave(r, u, rel, c, enabled) ==
  /\ Present(rel) /\ edit[r][u] = NoEdit
  /\ Asks
  /\ edit' = [edit EXCEPT ![r][u] =
       [release |-> rel, row |-> [policy[rel] EXCEPT !.chart = c, !.enabled = enabled, !.due = TRUE]]]
  /\ UNCHANGED <<pstate, policy, batch, check>>

\* and writes all of it, with the status that was read; GORM's Save inserts
\* the row again if it is gone.
EndSave(r, u) ==
  /\ edit[r][u] # NoEdit
  /\ policy' = [policy EXCEPT ![edit[r][u].release] = edit[r][u].row]
  /\ edit' = [edit EXCEPT ![r][u] = NoEdit]
  /\ UNCHANGED <<pvars, batch, check>>

Delete(rel) ==
  /\ Present(rel)
  /\ policy' = [policy EXCEPT ![rel] = NoPolicy]
  /\ UNCHANGED <<pvars, edit, batch, check>>

\* The interval of a policy passes.
BecomesDue(rel) ==
  /\ Present(rel) /\ ~policy[rel].due
  /\ policy' = [policy EXCEPT ![rel].due = TRUE]
  /\ UNCHANGED <<pvars, edit, batch, check>>

CheckNow(r, u, rel) ==
  /\ Present(rel) /\ check[r][u].pc = "none"
  /\ Start(r, u, Loaded(rel))
  /\ UNCHANGED <<pstate, policy, edit, batch>>

Due == {rel \in Releases : Present(rel) /\ policy[rel].enabled /\ policy[rel].due}

\* runDue, at a tick: the due policies in some order.
RunDue(r) ==
  /\ batch[r] = <<>> /\ check[r][NoUser].pc = "none" /\ Due # {}
  /\ \E order \in [1..Cardinality(Due) -> Due] :
       /\ \A i, j \in DOMAIN order : order[i] = order[j] => i = j
       /\ batch' = [batch EXCEPT ![r] = [i \in DOMAIN order |-> Loaded(order[i])]]
  /\ UNCHANGED <<pvars, policy, edit, check>>

NextDue(r) ==
  /\ batch[r] # <<>> /\ check[r][NoUser].pc = "none"
  /\ Start(r, NoUser, Head(batch[r]))
  /\ batch' = [batch EXCEPT ![r] = Tail(@)]
  /\ UNCHANGED <<pstate, policy, edit>>

-----------------------------------------------------------------------------
(* check, one call at a time.                                              *)

Upgrading(r, a) == [op |-> "upgrade", release |-> check[r][a].release, chart |-> check[r][a].chart]

\* latestVersion and Get.  What a repository serves may have changed under
\* the same version, so a different content need not be newer.
Compare(r, a) ==
  LET k == check[r][a]
      gone == release[k.release].status = "absent"
      same == ~gone /\ Current(k.release).content = Served(k.chart)
  IN
  /\ k.pc = "compare"
  /\ \/ gone /\ Finish(r, a, "failed")
     \/ ~gone /\ Finish(r, a, "current")
     \/ ~gone /\ ~same /\ Goto(r, a, "inspect") /\ UNCHANGED policy
  /\ UNCHANGED <<pvars, edit, batch>>

\* The risks of a preview that grants nothing.
Inspect(r, a) ==
  LET k == check[r][a]  ch == Upgrading(r, a) IN
  /\ k.pc = "inspect"
  /\ IF ~HelmAccepts("upgrade", k.release) \/ Served(ch.chart) \in Critical
     THEN Finish(r, a, "blocked")
     ELSE Goto(r, a, "approve") /\ UNCHANGED policy
  /\ UNCHANGED <<pvars, edit, batch>>

\* A second preview, for its confirmation only.
Approve(r, a) ==
  LET k == check[r][a]  ch == Upgrading(r, a) IN
  /\ k.pc = "approve"
  /\ \/ /\ IssueGrant(r, a, ch)
        /\ check' = [check EXCEPT ![r][a].pc = "confirm", ![r][a].grant = previews + 1]
        /\ UNCHANGED policy
     \/ /\ ~MayPreview(r, a, ch) \/ Cardinality(grants[r]) >= MaxGrants
        /\ Finish(r, a, "blocked")
        /\ UNCHANGED <<previews, grants>>
  /\ UNCHANGED <<world, cluster, uploads, active, task, refused, requests, events, edit, batch>>

InlineChange(r, a, ch, g) ==
  [NewTask("upgrade", a, ch.release, ch.chart, 0, g) EXCEPT !.replica = r, !.inline = TRUE]

\* Service.Upgrade: PrepareChange, and then the execution in this goroutine.
Apply(r, a) ==
  LET k == check[r][a]
      ch == Upgrading(r, a)
      granted == {g \in grants[r] : g.token = k.grant}
  IN
  /\ k.pc = "confirm"
  /\ grants' = [grants EXCEPT ![r] = @ \ granted]
  /\ \/ \E g \in granted :
          /\ Matches(g, a, ch)
          /\ Add(InlineChange(r, a, ch, g))
          /\ Goto(r, a, "wait")
          /\ UNCHANGED policy
     \/ /\ \A g \in granted : ~Matches(g, a, ch)
        /\ Finish(r, a, "failed")
        /\ UNCHANGED task
  /\ UNCHANGED <<world, cluster, uploads, active, previews, refused, requests, events, edit, batch>>

\* The upgrade returns.
Report(r, a) ==
  /\ check[r][a].pc = "wait"
  /\ \E i \in Open :
       /\ task[i].inline /\ task[i].replica = r /\ task[i].user = a /\ task[i].pc \in Ended
       /\ Finish(r, a, IF task[i].pc = "succeeded" THEN "upgraded" ELSE "failed")
       /\ task' = [task EXCEPT ![i] = NoTask]
  /\ UNCHANGED <<world, cluster, memory, refused, requests, events, edit, batch>>

-----------------------------------------------------------------------------
\* A replica dies and starts again, with an empty memory.
Crash(r) ==
  /\ CrashEffect(r)
  /\ edit' = [edit EXCEPT ![r] = [u \in Admins |-> NoEdit]]
  /\ batch' = [batch EXCEPT ![r] = <<>>]
  /\ check' = [check EXCEPT ![r] = [a \in Actors |-> NoCheck]]
  /\ UNCHANGED policy

RunCheck(r, a) == Compare(r, a) \/ Inspect(r, a) \/ Approve(r, a) \/ Apply(r, a) \/ Report(r, a)

Scheduler(r) == RunDue(r) \/ NextDue(r)

Next ==
  \/ (Execute \/ Requests \/ Environment) /\ UNCHANGED avars
  \/ \E rel \in Releases :
       \/ \E c \in Charts, on \in BOOLEAN :
            Create(rel, c, on) \/ \E r \in Replicas, u \in Admins : BeginSave(r, u, rel, c, on)
       \/ Delete(rel) \/ BecomesDue(rel)
       \/ \E r \in Replicas, u \in Admins : CheckNow(r, u, rel)
  \/ \E r \in Replicas :
       \/ Scheduler(r) \/ Crash(r)
       \/ \E u \in Admins : EndSave(r, u)
       \/ \E a \in Actors : RunCheck(r, a)

\* Workers and schedulers run on while their process lives.
Fairness ==
  /\ \A i \in Slots :
       /\ WF_vars(i \in Open /\ (\E r \in Replicas : Begin(r, i)) /\ UNCHANGED avars)
       /\ WF_vars(i \in Open /\ (Verify(i) \/ HelmStarts(i) \/ Unlock(i)) /\ UNCHANGED avars)
       /\ WF_vars(i \in Open /\ (\E ok \in BOOLEAN : HelmEnds(i, ok) \/ SaveSource(i, ok)) /\ UNCHANGED avars)
  /\ \A r \in Replicas :
       /\ WF_vars(Scheduler(r))
       /\ \A a \in Actors : WF_vars(RunCheck(r, a))

Spec == Init /\ [][Next]_vars /\ Fairness

-----------------------------------------------------------------------------
TypeOK ==
  /\ \A rel \in Releases :
       /\ release[rel].status \in {"absent", "deployed", "failed", "pending"}
       /\ release[rel].status = "absent" <=> release[rel].history = <<>>
       /\ source[rel] \in Charts \cup {None}
  /\ \A r \in Replicas :
       /\ Cardinality(grants[r]) <= MaxGrants
       /\ active[r] \subseteq Releases /\ uploads[r] \subseteq Users
  /\ allowed \subseteq Users \cup {NoUser}

HelmIsStarted(i) == task[i].pc = "verified" /\ task'[i].pc = "helm"

\* What Helm is given to apply is what the preview showed to the user who
\* confirmed it, for the same change: nothing it showed changed on the way
\* from the preview through the queue to the worker (changeDigest, mutate's
\* lock).  Values that end in Secrets only are not covered: the digest is of
\* a dry run with HideSecret.
ExecutedAsPreviewed ==
  [][\A i \in Open : (HelmIsStarted(i) /\ task[i].grant # NoGrant) =>
       LET t == task[i] IN
       /\ Shown(Current(t.release)') = t.grant.digest
       /\ t.grant.user = t.user
       /\ t.grant.change = [op |-> t.op, release |-> t.release, chart |-> t.chart]]_vars

\* A confirmation starts Helm at most once for itself and once for each retry
\* a user asked for, whatever is queued or executed at the same time
\* (PrepareChange deletes the grant; a retry is a copy of a row that failed).
TokenUsedOnce ==
  [][\A i \in Open : HelmIsStarted(i) => <<task[i].grant.token, task[i].attempt>> \notin started]_vars

\* package-releases.md:64 calls the token a one-time confirmation; two retries
\* of one refused row both start Helm under it.
ConfirmationUsedOnce ==
  [][\A i \in Open : HelmIsStarted(i) => \A n \in 0..MaxRequests : <<task[i].grant.token, n>> \notin started]_vars

\* A critical change that Helm runs was confirmed by an administrator, or is
\* an automatic upgrade (CanExecute is checked for the preview only).
CriticalNeedsAdmin ==
  [][\A i \in Open : (HelmIsStarted(i) /\ task[i].loaded \in Critical) => IsAdmin(task[i].user)]_vars

\* A release's lock is given back: no outcome of Helm, conflict or crash
\* leaves a release that nobody can change any more.
EveryLockIsFreed ==
  \A r \in Replicas, rel \in Releases : rel \in active[r] ~> rel \notin active[r]

\* A check ends, whatever happens to the release, the preview or the upgrade
\* it waits for: none leaves the scheduler of a replica waiting, which checks
\* one policy after the other.
EveryCheckEnds == \A r \in Replicas, a \in Actors : check[r][a].pc # "none" ~> check[r][a].pc = "none"

\* A policy that was deleted returns only by being created again; a save that
\* read the row before brings it back (upgrades.go:86, :99).
DeletedStaysDeleted ==
  [][\A rel \in Releases : ~Present(rel) /\ Present(rel)' => requests' # requests]_vars

\* package-releases.md:111: "automation always blocks" critical findings.
AutomationBlocksCritical ==
  [][\A i \in Open : (HelmIsStarted(i) /\ task[i].user = NoUser) => task[i].loaded \notin Critical]_vars
=============================================================================
