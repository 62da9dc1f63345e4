----------------------- MODULE UpgradeManager_proofs -----------------------
(***************************************************************************)
(* The safety of PackageService and UpgradeManager, for any number of      *)
(* replicas but where a theorem says otherwise.  A token, with the number  *)
(* of the retry, is in one place: a preview, one execution, or history; a  *)
(* lock is held by one execution; and while one replica holds the lock of  *)
(* a release, what it compared with the preview stays as it was.           *)
(***************************************************************************)
EXTENDS UpgradeManager, SequenceTheorems, FiniteSetTheorems, TLAPS

Contents == Sources \X Nat
Digest == [content : Contents, values : SUBSET Sources]

\* What Service.Preview may grant: a critical change to an administrator only.
Grant ==
  {g \in [token : Nat \ {0}, user : Users \cup {NoUser}, change : Change, digest : Digest] :
     g.digest.content \in Critical => IsAdmin(g.user)}

Holds(t) == t.pc \in {"locked", "verified", "helm", "returned"}

\* Helm was not started for t, and still may be.
Waits(t) == t.pc \in {"queued", "locked", "verified"}

\* What Helm is started with: a confirmation, and the retry it is tried again for.
Turn(t) == <<t.grant.token, t.attempt>>

Task ==
  [op : {"install", "upgrade", "rollback", "remove"}, user : Users \cup {NoUser}, release : Releases,
   chart : Sources \cup {None}, revision : Nat, grant : Grant \cup {NoGrant},
   pc : {"queued", "source", "locked", "verified", "helm", "returned"} \cup Ended, attempt : Nat,
   replica : Replicas \cup {None}, loaded : Contents \cup {None}, outcome : Ended \cup {"conflict"},
   inline : BOOLEAN]

\* A change that has a preview is the one its grant is for, and what Helm loads
\* for it is what was previewed; the others have no preview and load nothing;
\* whoever holds a lock holds it at a replica.
GoodTask(t) ==
  /\ t \in Task
  /\ IF t.op \in {"install", "upgrade"}
     THEN /\ t.grant # NoGrant /\ t.grant.user = t.user /\ t.chart \in Sources
          /\ t.grant.change = [op |-> t.op, release |-> t.release, chart |-> t.chart]
     ELSE t.grant = NoGrant /\ t.loaded = None
  /\ Holds(t) => t.replica \in Replicas
  /\ t.pc = "locked" => t.op \in {"install", "upgrade"}
  /\ t.pc = "verified" /\ t.op \in {"install", "upgrade"}
       => t.loaded \in Contents /\ t.loaded = t.grant.digest.content
  /\ t.op = "rollback" => t.revision >= 1

\* An execution, and a row that may be retried, which is queued again as it is.
Tasks ==
  /\ task \in [Slots -> Task \cup {NoTask}] /\ \A i \in Open : GoodTask(task[i])
  /\ \A t \in refused : GoodTask(t) /\ t.pc = "queued"

\* A token is one preview's; it leaves the previews with the confirmation, and
\* Helm is started with it only then.  Retries have numbers of their own.
Tokens ==
  /\ previews \in Nat /\ started \subseteq (1..previews) \X (0..previews)
  /\ \A r \in Replicas : \A g \in grants[r] : g.token \in 1..previews /\ <<g.token, 0>> \notin started
  /\ \A r, s \in Replicas : \A g \in grants[r], h \in grants[s] : g.token = h.token => r = s /\ g = h
  /\ \A i \in Open : /\ task[i].grant.token \in 0..previews /\ task[i].attempt \in 0..previews
                     /\ Waits(task[i]) => Turn(task[i]) \notin started
                     /\ \A r \in Replicas : \A g \in grants[r] : <<g.token, 0>> # Turn(task[i])
  /\ \A i, j \in Open : Turn(task[i]) = Turn(task[j]) /\ i # j => task[i].grant.token = 0
  /\ \A t \in refused : t.grant.token \in 0..previews

\* Of the executions at one replica that hold the lock of a release, there is
\* one, and the release is in Service.active.
Locks ==
  /\ active \in [Replicas -> SUBSET Releases]
  /\ \A i \in Open : Holds(task[i]) => task[i].release \in active[task[i].replica]
  /\ \A i, j \in Open :
       /\ Holds(task[i]) /\ Holds(task[j])
       /\ task[i].replica = task[j].replica /\ task[i].release = task[j].release
       => i = j

Row == [status : {"absent", "deployed", "failed", "pending"}, history : Seq(Digest)]

\* The types of the other variables of PackageService.
World ==
  /\ content \in [Charts -> Nat] /\ allowed \subseteq Users \cup {NoUser}
  /\ uploads \in [Replicas -> SUBSET Users] /\ requests \in Nat /\ events \in Nat
Rows ==
  /\ release \in [Releases -> Row] /\ source \in [Releases -> Charts \cup {None}]
  /\ \A rel \in Releases : release[rel].status = "absent" <=> release[rel].history = <<>>
Grants ==
  /\ grants \in [Replicas -> SUBSET Grant]
  /\ \A r \in Replicas : IsFiniteSet(grants[r]) /\ Cardinality(grants[r]) <= MaxGrants

Item == [id : Nat, release : Releases, chart : Charts]
Policy == [id : Nat, chart : Charts \cup {None}, enabled : BOOLEAN, due : BOOLEAN,
           status : {"idle", "failed", "current", "blocked", "upgraded"}]
Check == [pc : {"none", "compare", "inspect", "approve", "confirm", "wait"}, id : Nat,
          release : Releases \cup {None}, chart : Charts \cup {None}, grant : Nat]

\* A policy names a chart, and so does whatever was loaded from one.
Policies == policy \in [Releases -> Policy] /\ \A rel \in Releases : Present(rel) => policy[rel].chart \in Charts
Edit == {NoEdit} \cup {e \in [release : Releases, row : Policy] : e.row.chart \in Charts}
Edits == edit \in [Replicas -> [Admins -> Edit]]
Batches == batch \in [Replicas -> Seq(Item)]
Checks ==
  /\ check \in [Replicas -> [Actors -> Check]]
  /\ \A r \in Replicas, a \in Actors :
       check[r][a].pc # "none" => check[r][a].release \in Releases /\ check[r][a].chart \in Charts

-----------------------------------------------------------------------------
\* Helm does not run for x, and if it is about to, for a change with a preview,
\* then what it renders is what was previewed.
Steady(x) ==
  /\ x.pc # "helm"
  /\ x.pc = "verified" /\ x.grant # NoGrant => Shown(Render(x, x.loaded)) = x.grant.digest

\* A single replica executes: its lock keeps what was compared as it was.
OneReplica == \A r, s \in Replicas : r = s
Fits == OneReplica => \A i \in Open : task[i].pc = "verified" => Steady(task[i])

PInv == World /\ Rows /\ Grants /\ Tasks /\ Tokens /\ Locks /\ Fits
IInv == PInv /\ Policies /\ Edits /\ Batches /\ Checks

\* What every step but Helm's start does to the executions.
Calm == \A i \in Open : task[i].pc = "verified" => task'[i].pc # "helm"

-----------------------------------------------------------------------------
LEMMA NoTaskDiffers == NoTask \notin Task
<1>1. SUFFICES ASSUME NoTask \in Task PROVE FALSE
  OBVIOUS
<1>2. NoTask.pc = "free"
  BY DEF NoTask
<1>3. QED
  BY <1>1, <1>2 DEF Task, Ended

LEMMA NoGrantDiffers == NoGrant \notin Grant /\ NoGrant.token = 0
<1>1. NoGrant.token = 0
  BY DEF NoGrant
<1>2. QED
  BY <1>1 DEF Grant

\* What a step other than Helm's start does to the execution in slot i, and
\* the row it leaves.
Continues(i, x) ==
  x = NoTask \/ (/\ GoodTask(x) /\ x.grant = task[i].grant /\ x.attempt = task[i].attempt
                 /\ Waits(x) => Waits(task[i]))
RowsOf(i) ==
  \A t \in refused' : t \in refused \/ (GoodTask(t) /\ t.pc = "queued" /\ t.grant = task[i].grant)

\* An execution goes on, or is forgotten.
LEMMA Moved ==
  ASSUME Tasks, Tokens, NEW i \in Open, NEW x, task' = [task EXCEPT ![i] = x],
         Continues(i, x), RowsOf(i),
         \A r \in Replicas : grants'[r] \subseteq grants[r],
         previews' = previews, started' = started
  PROVE  Tasks' /\ Tokens'
<1>1. i \in Slots /\ task \in [Slots -> Task \cup {NoTask}] /\ \A j \in Open : GoodTask(task[j])
  BY DEF Tasks, Open
<1>2. task'[i] = x /\ \A j \in Slots : j # i => task'[j] = task[j]
  BY <1>1
<1>3. Open' \subseteq Open /\ \A j \in Open' : j = i => x # NoTask
  BY <1>2 DEF Open, Free
<1>4. \A j \in Open' : /\ GoodTask(task'[j]) /\ task'[j].grant = task[j].grant
                       /\ task'[j].attempt = task[j].attempt /\ (Waits(task'[j]) => Waits(task[j]))
  BY <1>1, <1>2, <1>3 DEF Open, Continues
<1>5. Tasks'
  <2>1. x \in Task \cup {NoTask}
    BY DEF GoodTask, Continues
  <2>2. task' \in [Slots -> Task \cup {NoTask}]
    BY <1>1, <2>1
  <2>3. QED
    BY <1>4, <2>2 DEF Tasks, RowsOf
<1>6. Tokens'
  <2>1. \A j \in Open' : j \in Open /\ Turn(task'[j]) = Turn(task[j])
    BY <1>3, <1>4 DEF Turn
  <2>2. \A t \in refused' : t.grant.token \in 0..previews
    BY DEF RowsOf, Tokens
  <2>3. QED
    BY <1>4, <2>1, <2>2 DEF Tokens
<1>7. QED
  BY <1>5, <1>6

LEMMA MovedLocks ==
  ASSUME Tasks, Locks, NEW i \in Open, NEW x, task' = [task EXCEPT ![i] = x], active' = active,
         x = NoTask \/ (Holds(x) => /\ Holds(task[i]) /\ x.release = task[i].release
                                    /\ x.replica = task[i].replica)
  PROVE  Locks'
<1>1. i \in Slots /\ task'[i] = x /\ \A j \in Slots : j # i => task'[j] = task[j]
  BY DEF Tasks, Open
<1>2. Open' \subseteq Open /\ \A j \in Open' : j = i => x # NoTask
  BY <1>1 DEF Open, Free
<1>3. \A j \in Open' : Holds(task'[j]) => /\ Holds(task[j]) /\ task'[j].release = task[j].release
                                          /\ task'[j].replica = task[j].replica
  BY <1>1, <1>2 DEF Open
<1>4. QED
  BY <1>2, <1>3 DEF Locks

\* An execution is added: without a preview, or with one that was consumed.
LEMMA Added ==
  ASSUME Tasks, Tokens, Locks, NEW i \in Free, NEW t, GoodTask(t), t.pc = "queued",
         task' = [task EXCEPT ![i] = t],
         \A r \in Replicas : grants'[r] \subseteq grants[r],
         \/ t.grant = NoGrant /\ t.attempt = 0 /\ previews' = previews
         \/ /\ \E r \in Replicas : t.grant \in grants[r] /\ t.grant \notin grants'[r]
            /\ t.attempt = 0 /\ previews' = previews
         \/ t.grant.token \in 0..previews /\ t.attempt = previews + 1 /\ previews' = previews + 1,
         refused' = refused, started' = started, active' = active
  PROVE  Tasks' /\ Tokens' /\ Locks'
<1>1. i \in Slots /\ task \in [Slots -> Task \cup {NoTask}] /\ \A j \in Open : GoodTask(task[j])
  BY DEF Tasks, Free
<1>2. t \in Task /\ t # NoTask
  BY NoTaskDiffers DEF GoodTask
<1>3. task'[i] = t /\ \A j \in Slots : j # i => task'[j] = task[j]
  BY <1>1
<1>4. Open' = Open \cup {i} /\ i \notin Open
  BY <1>1, <1>2, <1>3 DEF Open, Free
<1>5. \A j \in Open : task'[j] = task[j]
  BY <1>3, <1>4 DEF Open
<1>6. Tasks'
  <2>1. task' \in [Slots -> Task \cup {NoTask}]
    BY <1>1, <1>2
  <2>2. QED
    BY <1>1, <1>3, <1>4, <1>5, <2>1 DEF Tasks
<1>7. /\ t.grant.token \in 0..previews /\ t.attempt \in 0..previews' /\ Turn(t) \notin started
      /\ \A r \in Replicas : \A g \in grants'[r] : <<g.token, 0>> # Turn(t)
      /\ \A j \in Open : Turn(task[j]) = Turn(t) => t.grant.token = 0
  <2>1. CASE t.grant = NoGrant /\ t.attempt = 0 /\ previews' = previews
    BY <2>1, NoGrantDiffers DEF Tokens, Turn
  <2>2. ASSUME NEW r \in Replicas, t.grant \in grants[r], t.grant \notin grants'[r],
               t.attempt = 0, previews' = previews
        PROVE  /\ t.grant.token \in 0..previews /\ Turn(t) \notin started
               /\ \A s \in Replicas : \A g \in grants'[s] : <<g.token, 0>> # Turn(t)
               /\ \A j \in Open : Turn(task[j]) # Turn(t)
    BY <2>2 DEF Tokens, Turn
  <2>3. CASE t.grant.token \in 0..previews /\ t.attempt = previews + 1 /\ previews' = previews + 1
    <3>1. Turn(t) \notin started
      BY <2>3 DEF Tokens, Turn
    <3>2. \A j \in Open : task[j].attempt # t.attempt
      BY <2>3 DEF Tokens
    <3>3. QED
      BY <2>3, <3>1, <3>2 DEF Tokens, Turn
  <2>4. QED
    BY <2>1, <2>2, <2>3 DEF Tokens
<1>8. Tokens'
  <2>1. previews \in Nat /\ previews' \in Nat /\ previews <= previews'
    BY DEF Tokens
  <2>2. /\ 1..previews \subseteq 1..previews' /\ 0..previews \subseteq 0..previews'
        /\ started' \subseteq (1..previews') \X (0..previews')
    BY <2>1 DEF Tokens
  <2>3. \A j \in Open' : (j = i /\ task'[j] = t) \/ (j \in Open /\ task'[j] = task[j])
    BY <1>3, <1>4, <1>5
  <2>4. \A j \in Open' : /\ task'[j].grant.token \in 0..previews' /\ task'[j].attempt \in 0..previews'
                         /\ Waits(task'[j]) => Turn(task'[j]) \notin started
                         /\ \A r \in Replicas : \A g \in grants'[r] : <<g.token, 0>> # Turn(task'[j])
    BY <1>7, <2>2, <2>3 DEF Tokens
  <2>5. \A j, k \in Open' : Turn(task'[j]) = Turn(task'[k]) /\ j # k => task'[j].grant.token = 0
    BY <1>7, <2>3 DEF Tokens, Turn
  <2>6. QED
    BY <2>1, <2>2, <2>4, <2>5 DEF Tokens
<1>9. Locks'
  BY <1>3, <1>4, <1>5 DEF Locks, Holds
<1>10. QED
  BY <1>6, <1>8, <1>9

-----------------------------------------------------------------------------
LEMMA NoTaskSteady == Steady(NoTask) /\ ~Holds(NoTask)
BY DEF Steady, Holds, NoTask

\* The fields of an execution that moves.
LEMMA MovedTask ==
  ASSUME NEW t \in Task,
         NEW p \in {"queued", "source", "locked", "verified", "helm", "returned"} \cup Ended,
         NEW x, x = [t EXCEPT !.pc = p]
  PROVE  /\ x \in Task /\ x.pc = p /\ x.op = t.op /\ x.user = t.user /\ x.release = t.release
         /\ x.chart = t.chart /\ x.revision = t.revision /\ x.grant = t.grant /\ x.attempt = t.attempt
         /\ x.replica = t.replica /\ x.loaded = t.loaded /\ x.outcome = t.outcome /\ x.inline = t.inline
<1> USE DEF Task
<1>1. x.pc = p /\ x.op = t.op /\ x.user = t.user /\ x.release = t.release
  OBVIOUS
<1>2. x.chart = t.chart /\ x.revision = t.revision /\ x.grant = t.grant /\ x.attempt = t.attempt
  OBVIOUS
<1>3. x.replica = t.replica /\ x.loaded = t.loaded /\ x.outcome = t.outcome /\ x.inline = t.inline
  OBVIOUS
<1>4. x \in Task
  OBVIOUS
<1>5. QED
  BY <1>1, <1>2, <1>3, <1>4

LEMMA PlacedTask ==
  ASSUME NEW t \in Task, NEW r \in Replicas \cup {None}, NEW x, x = [t EXCEPT !.replica = r]
  PROVE  /\ x \in Task /\ x.pc = t.pc /\ x.op = t.op /\ x.user = t.user /\ x.release = t.release
         /\ x.chart = t.chart /\ x.revision = t.revision /\ x.grant = t.grant /\ x.attempt = t.attempt
         /\ x.replica = r /\ x.loaded = t.loaded /\ x.outcome = t.outcome /\ x.inline = t.inline
<1> USE DEF Task
<1>1. x.pc = t.pc /\ x.op = t.op /\ x.user = t.user /\ x.release = t.release
  OBVIOUS
<1>2. x.chart = t.chart /\ x.revision = t.revision /\ x.grant = t.grant /\ x.attempt = t.attempt
  OBVIOUS
<1>3. x.replica = r /\ x.loaded = t.loaded /\ x.outcome = t.outcome /\ x.inline = t.inline
  OBVIOUS
<1>4. x \in Task
  OBVIOUS
<1>5. QED
  BY <1>1, <1>2, <1>3, <1>4

\* The execution has ended, or has gone on to a step without lock and loaded chart.
LEMMA EndsMoves ==
  ASSUME Tasks, NEW i \in Open, NEW pc \in {"source"} \cup Ended, Ends(i, pc) \/ Move(i, pc), refused' = refused
  PROVE  /\ RowsOf(i)
         /\ \E x : task' = [task EXCEPT ![i] = x] /\ Continues(i, x) /\ Steady(x) /\ ~Holds(x)
<1> DEFINE t == task[i]  y == [t EXCEPT !.pc = pc]
<1>1. i \in Slots /\ t \in Task /\ GoodTask(t)
  BY DEF Tasks, Open, GoodTask
<1>2. task' = [task EXCEPT ![i] = NoTask] \/ task' = [task EXCEPT ![i] = y]
  BY <1>1 DEF Ends, Move, Tasks
<1>3. /\ y \in Task /\ y.pc = pc /\ y.replica = t.replica /\ y.op = t.op /\ y.user = t.user
      /\ y.release = t.release /\ y.chart = t.chart /\ y.revision = t.revision /\ y.grant = t.grant
      /\ y.loaded = t.loaded /\ y.attempt = t.attempt
  BY <1>1, MovedTask
<1> HIDE DEF y
<1>4. GoodTask(y) /\ ~Holds(y) /\ Steady(y) /\ ~Waits(y)
  BY <1>1, <1>3 DEF GoodTask, Holds, Steady, Waits, Ended
<1>5. RowsOf(i)
  BY DEF RowsOf
<1>6. QED
  BY <1>2, <1>3, <1>4, <1>5, NoTaskSteady DEF Continues

\* A refusal leaves a row to retry, or ends a change of the upgrade manager.
LEMMA RefuseMoves ==
  ASSUME Tasks, NEW i \in Open, Refuse(i)
  PROVE  /\ RowsOf(i)
         /\ \E x : task' = [task EXCEPT ![i] = x] /\ Continues(i, x) /\ Steady(x) /\ ~Holds(x)
<1> DEFINE t == task[i]
<1>1. i \in Slots /\ t \in Task /\ GoodTask(t)
  BY DEF Tasks, Open, GoodTask
<1>2. CASE t.inline
  <2>1. Ends(i, "failed") /\ refused' = refused /\ "failed" \in Ended
    BY <1>2 DEF Refuse, Ended
  <2>2. QED
    BY <2>1, EndsMoves
<1>3. CASE ~t.inline
  <2> DEFINE row == [t EXCEPT !.pc = "queued", !.replica = None, !.loaded = None, !.outcome = "failed"]
  <2>1. refused' = refused \cup {row} /\ task' = [task EXCEPT ![i] = NoTask]
    BY <1>3, Zenon DEF Refuse
  <2>2. /\ row \in Task /\ row.pc = "queued" /\ row.op = t.op /\ row.user = t.user /\ row.release = t.release
        /\ row.chart = t.chart /\ row.revision = t.revision /\ row.grant = t.grant /\ row.loaded = None
    BY <1>1 DEF Task, Ended
  <2> HIDE DEF row
  <2>3. GoodTask(row)
    BY <1>1, <2>2 DEF GoodTask, Holds
  <2>4. RowsOf(i)
    BY <2>1, <2>2, <2>3 DEF RowsOf
  <2>5. QED
    BY <2>1, <2>4, NoTaskSteady DEF Continues
<1>4. QED
  BY <1>2, <1>3

\* Begin: refused, or the lock is taken.
LEMMA BeginMoves ==
  ASSUME Tasks, NEW r \in Replicas, NEW i \in Open, Begin(r, i)
  PROVE  /\ RowsOf(i)
         /\ \E x : /\ task' = [task EXCEPT ![i] = x] /\ Continues(i, x) /\ Steady(x)
                   /\ \/ active' = active /\ ~Holds(x)
                      \/ /\ x # NoTask /\ x.replica = r /\ x.release \in Releases /\ x.release \notin active[r]
                         /\ active' = [active EXCEPT ![r] = @ \cup {x.release}]
<1> DEFINE t == task[i]
<1>1. i \in Slots /\ t \in Task /\ GoodTask(t) /\ t.pc = "queued" /\ Waits(t)
  BY DEF Tasks, Open, GoodTask, Begin, Waits
<1>2. CASE active' = active /\ ((Ends(i, "failed") /\ refused' = refused) \/ Refuse(i))
  <2>1. "failed" \in Ended
    BY DEF Ended
  <2>2. QED
    BY <1>1, <1>2, <2>1, EndsMoves, RefuseMoves
<1>3. ASSUME NEW p \in {"locked", "verified"}, p = "locked" <=> t.op \in {"install", "upgrade"},
             task' = [task EXCEPT ![i].pc = p, ![i].replica = r],
             MayLock(r, t.release), active' = [active EXCEPT ![r] = @ \cup {t.release}]
      PROVE  \E x : /\ task' = [task EXCEPT ![i] = x] /\ Continues(i, x) /\ Steady(x)
                    /\ x # NoTask /\ x.replica = r /\ x.release \in Releases /\ x.release \notin active[r]
                    /\ active' = [active EXCEPT ![r] = @ \cup {x.release}]
  <2> DEFINE w == [t EXCEPT !.pc = p]  x == [w EXCEPT !.replica = r]
  <2>1. task' = [task EXCEPT ![i] = x]
    BY <1>1, <1>3 DEF Tasks
  <2>2. /\ x \in Task /\ x.pc = p /\ x.replica = r /\ x.op = t.op /\ x.user = t.user
        /\ x.release = t.release /\ x.chart = t.chart /\ x.revision = t.revision /\ x.grant = t.grant
        /\ x.loaded = t.loaded /\ x.attempt = t.attempt
    <3>1. /\ w \in Task /\ w.pc = p /\ w.op = t.op /\ w.user = t.user /\ w.release = t.release
          /\ w.chart = t.chart /\ w.revision = t.revision /\ w.grant = t.grant /\ w.loaded = t.loaded
          /\ w.attempt = t.attempt
      BY <1>1, MovedTask
    <3> HIDE DEF w
    <3>2. QED
      BY <3>1, PlacedTask
  <2> HIDE DEF x, w
  <2>3. GoodTask(x) /\ Steady(x)
    BY <1>1, <1>3, <2>2 DEF GoodTask, Holds, Steady
  <2>4. x # NoTask /\ x.release \in Releases /\ x.release \notin active[r]
    BY <1>1, <1>3, <2>2, NoTaskDiffers DEF Task, MayLock
  <2>5. QED
    BY <1>1, <1>3, <2>1, <2>2, <2>3, <2>4 DEF Continues
<1>4. CASE /\ task' = [task EXCEPT ![i].pc = IF t.op \in {"install", "upgrade"} THEN "locked" ELSE "verified",
                                   ![i].replica = r]
           /\ MayLock(r, t.release) /\ active' = [active EXCEPT ![r] = @ \cup {t.release}]
           /\ refused' = refused
  <2>1. CASE t.op \in {"install", "upgrade"}
    BY <1>3, <1>4, <2>1 DEF RowsOf
  <2>2. CASE t.op \notin {"install", "upgrade"}
    BY <1>3, <1>4, <2>2 DEF RowsOf
  <2>3. QED
    BY <2>1, <2>2
<1>5. QED
  BY <1>2, <1>4 DEF Begin

\* An execution returns to mutate: it keeps its lock until it is unlocked.
LEMMA ReturnMoves ==
  ASSUME Tasks, NEW i \in Open, Holds(task[i]), NEW outcome \in Ended \cup {"conflict"}, Return(i, outcome)
  PROVE  \E x : /\ task' = [task EXCEPT ![i] = x] /\ Continues(i, x) /\ Steady(x)
                /\ x.release = task[i].release /\ x.replica = task[i].replica
<1> DEFINE t == task[i]  x == [t EXCEPT !.pc = "returned", !.outcome = outcome]
<1>1. i \in Slots /\ t \in Task /\ GoodTask(t)
  BY DEF Tasks, Open, GoodTask
<1>2. task' = [task EXCEPT ![i] = x]
  BY <1>1 DEF Return, Tasks
<1>3. /\ x \in Task /\ x.pc = "returned" /\ x.outcome = outcome /\ x.replica = t.replica
      /\ x.op = t.op /\ x.user = t.user /\ x.revision = t.revision /\ x.grant = t.grant
      /\ x.release = t.release /\ x.chart = t.chart /\ x.loaded = t.loaded /\ x.attempt = t.attempt
  BY <1>1 DEF Task
<1> HIDE DEF x
<1>4. GoodTask(x) /\ Steady(x) /\ (Waits(x) => Waits(t))
  BY <1>1, <1>3 DEF GoodTask, Holds, Steady, Waits
<1>5. QED
  BY <1>2, <1>3, <1>4 DEF Continues

\* Verify: what is loaded renders as it was previewed, or the change is refused.
LEMMA VerifyMoves ==
  ASSUME PackageAssumption, World, Tasks, NEW i \in Open, Verify(i)
  PROVE  \E x : /\ task' = [task EXCEPT ![i] = x] /\ Continues(i, x) /\ Steady(x)
                /\ x.release = task[i].release /\ x.replica = task[i].replica
<1> DEFINE t == task[i]
           loads == Loads(t.replica, t.chart)
           fits  == HelmAccepts(t.op, t.release) /\ SameDigest(t)
<1>1. i \in Slots /\ t \in Task /\ GoodTask(t) /\ t.pc = "locked" /\ Waits(t) /\ Holds(t)
  BY DEF Tasks, Open, GoodTask, Verify, Waits, Holds
<1>2. CASE Return(i, "failed") \/ Return(i, Refusal(t))
  BY <1>1, <1>2, ReturnMoves DEF Refusal, Ended
<1>3. ASSUME SameDigest(t), task' = [task EXCEPT ![i].pc = "verified", ![i].loaded = Served(t.chart)]
      PROVE  \E x : /\ task' = [task EXCEPT ![i] = x] /\ Continues(i, x) /\ Steady(x)
                    /\ x.release = task[i].release /\ x.replica = task[i].replica
  <2> DEFINE served == Served(t.chart)
             x == [t EXCEPT !.pc = "verified", !.loaded = served]
  <2>1. task' = [task EXCEPT ![i] = x]
    BY <1>1, <1>3 DEF Tasks
  <2>2. t.chart \in Sources
    BY <1>1 DEF GoodTask
  <2>3. served \in Contents
    BY <2>2 DEF Served, Contents, World
  <2> HIDE DEF served
  <2>4. /\ x \in Task /\ x.pc = "verified" /\ x.loaded = served /\ x.replica = t.replica
        /\ x.op = t.op /\ x.user = t.user /\ x.revision = t.revision /\ x.grant = t.grant
        /\ x.release = t.release /\ x.chart = t.chart /\ x.attempt = t.attempt
    BY <1>1, <2>3 DEF Task
  <2> HIDE DEF x
  <2>5. GoodTask(x) /\ Waits(x)
    <3>1. Shown(Render(t, served)).content = served
      BY DEF Render, Shown
    <3>2. served = t.grant.digest.content
      BY <1>3, <3>1 DEF SameDigest, served
    <3>3. QED
      BY <1>1, <2>3, <2>4, <3>2 DEF GoodTask, Holds, Waits
  <2>6. Render(x, served) = Render(t, served)
    BY <2>4 DEF Render
  <2>7. Steady(x)
    BY <1>3, <2>4, <2>6 DEF Steady, SameDigest, served
  <2>8. QED
    BY <1>1, <2>1, <2>4, <2>5, <2>7 DEF Continues
<1>4. QED
  <2>1. CASE loads /\ fits
    BY <1>3, <2>1 DEF Verify
  <2>2. CASE ~(loads /\ fits)
    BY <1>2, <2>2 DEF Verify
  <2>3. QED
    BY <2>1, <2>2

-----------------------------------------------------------------------------
(* Steps of one execution, which change no release.                        *)

LEMMA FitsMoved ==
  ASSUME Tasks, Fits, NEW i \in Open, NEW x, task' = [task EXCEPT ![i] = x], Steady(x), release' = release
  PROVE  Fits' /\ Calm
<1>1. i \in Slots /\ task'[i] = x /\ \A j \in Slots : j # i => task'[j] = task[j]
  BY DEF Tasks, Open
<1>2. \A j \in Open' : j = i \/ (j \in Open /\ task'[j] = task[j])
  BY <1>1 DEF Open, Free
<1>3. Fits'
  <2> SUFFICES ASSUME OneReplica, NEW j \in Open', task'[j].pc = "verified"
               PROVE  Steady(task[j])'
    BY DEF Fits, OneReplica
  <2>1. Steady(task'[j])
    BY <1>1, <1>2 DEF Fits
  <2>2. QED
    BY <2>1 DEF Steady, Shown, Render, Current
<1>4. Calm
  BY <1>1 DEF Calm, Steady, Open
<1>5. QED
  BY <1>3, <1>4

LEMMA MovesOn ==
  ASSUME PInv, NEW i \in Open, NEW x, task' = [task EXCEPT ![i] = x], Continues(i, x), Steady(x),
         RowsOf(i), \A r \in Replicas : grants'[r] \subseteq grants[r],
         previews' = previews, started' = started, release' = release
  PROVE  Tasks' /\ Tokens' /\ Fits' /\ Calm
BY Moved, FitsMoved DEF PInv

\* The variables an execution leaves alone.
LEMMA MemoryStays ==
  ASSUME PInv, UNCHANGED <<world, uploads, grants, previews>>, requests' \in Nat, events' \in Nat
  PROVE  World' /\ Grants' /\ previews' = previews /\ (\A r \in Replicas : grants'[r] \subseteq grants[r])
BY DEF PInv, World, Grants, world

LEMMA Counters ==
  ASSUME PInv, Asks \/ requests' = requests, Happens \/ events' = events
  PROVE  requests' \in Nat /\ events' \in Nat
BY DEF PInv, World, Asks, Happens

LEMMA BeginOK ==
  ASSUME PInv, NEW r \in Replicas, NEW i \in Open, Begin(r, i)
  PROVE  PInv' /\ Calm
<1>1. UNCHANGED <<world, cluster, uploads, grants, previews, requests>> /\ (Happens \/ events' = events)
  BY DEF Begin
<1>2. World' /\ Grants' /\ Rows' /\ UNCHANGED <<release, source, started, previews>>
      /\ \A s \in Replicas : grants'[s] \subseteq grants[s]
  <2>1. events' \in Nat
    BY <1>1, Counters
  <2>2. QED
    BY <1>1, <2>1 DEF PInv, World, Grants, Rows, world, cluster
<1>3. PICK x : /\ task' = [task EXCEPT ![i] = x] /\ Continues(i, x) /\ Steady(x)
               /\ \/ active' = active /\ ~Holds(x)
                  \/ /\ x # NoTask /\ x.replica = r /\ x.release \in Releases /\ x.release \notin active[r]
                     /\ active' = [active EXCEPT ![r] = @ \cup {x.release}]
  BY BeginMoves DEF PInv
<1>4. Tasks' /\ Tokens' /\ Fits' /\ Calm
  <2>1. RowsOf(i)
    BY BeginMoves DEF PInv
  <2>2. QED
    BY <1>2, <1>3, <2>1, MovesOn
<1>5. Locks'
  <2>1. CASE active' = active /\ ~Holds(x)
    BY <1>3, <2>1, MovedLocks DEF PInv
  <2>2. CASE /\ x # NoTask /\ x.replica = r /\ x.release \in Releases /\ x.release \notin active[r]
             /\ active' = [active EXCEPT ![r] = @ \cup {x.release}]
    <3>1. i \in Slots /\ task'[i] = x /\ \A j \in Slots : j # i => task'[j] = task[j]
      BY <1>3 DEF PInv, Tasks, Open
    <3>2. \A j \in Open' : j = i \/ (j \in Open /\ task'[j] = task[j])
      BY <3>1 DEF Open, Free
    <3>3. active' \in [Replicas -> SUBSET Releases] /\ x.release \in active'[r]
          /\ \A s \in Replicas : active[s] \subseteq active'[s]
      BY <2>2 DEF PInv, Locks
    <3>4. \A j \in Open : Holds(task[j]) => ~(task[j].replica = r /\ task[j].release = x.release)
      BY <2>2 DEF PInv, Locks
    <3>5. \A j \in Open : Holds(task[j]) => task[j].release \in active[task[j].replica] /\ task[j].replica \in Replicas
      BY DEF PInv, Locks, Tasks, GoodTask
    <3>6. \A j \in Open' : Holds(task'[j]) => task'[j].release \in active'[task'[j].replica]
      BY <2>2, <3>1, <3>2, <3>3, <3>5
    <3>7. ASSUME NEW j \in Open', NEW k \in Open', Holds(task'[j]), Holds(task'[k]),
                 task'[j].replica = task'[k].replica, task'[j].release = task'[k].release
          PROVE  j = k
      <4>1. CASE j = i /\ k # i
        BY <2>2, <3>1, <3>2, <3>4, <3>7, <4>1
      <4>2. CASE k = i /\ j # i
        BY <2>2, <3>1, <3>2, <3>4, <3>7, <4>2
      <4>3. CASE j # i /\ k # i
        BY <3>2, <3>7, <4>3 DEF PInv, Locks
      <4>4. QED
        BY <4>1, <4>2, <4>3
    <3>8. QED
      BY <3>3, <3>6, <3>7 DEF Locks
  <2>3. QED
    BY <1>3, <2>1, <2>2
<1>6. QED
  BY <1>2, <1>4, <1>5 DEF PInv

LEMMA VerifyOK ==
  ASSUME PInv, PackageAssumption, NEW i \in Open, Verify(i)
  PROVE  PInv' /\ Calm
<1>1. UNCHANGED <<world, cluster, memory, refused, requests, events>> /\ Holds(task[i]) /\ RowsOf(i)
  BY DEF Verify, Holds, RowsOf
<1>2. /\ World' /\ Grants' /\ Rows' /\ UNCHANGED <<release, source, started, previews, active>>
      /\ \A s \in Replicas : grants'[s] \subseteq grants[s]
  BY <1>1 DEF PInv, World, Grants, Rows, world, cluster, memory
<1>3. PICK x : /\ task' = [task EXCEPT ![i] = x] /\ Continues(i, x) /\ Steady(x)
               /\ x.release = task[i].release /\ x.replica = task[i].replica
  BY VerifyMoves DEF PInv
<1>4. Tasks' /\ Tokens' /\ Fits' /\ Calm
  BY <1>1, <1>2, <1>3, MovesOn
<1>5. Locks'
  BY <1>1, <1>2, <1>3, MovedLocks DEF PInv
<1>6. QED
  BY <1>2, <1>4, <1>5 DEF PInv

\* The lock is given back, and nobody else had it.
LEMMA UnlockOK ==
  ASSUME PInv, NEW i \in Open, Unlock(i)
  PROVE  PInv' /\ Calm
<1> DEFINE t == task[i]
<1>1. /\ UNCHANGED <<world, cluster, uploads, grants, previews, requests, events>>
      /\ t.pc = "returned" /\ Holds(t)
      /\ active' = [active EXCEPT ![t.replica] = @ \ {t.release}]
  BY DEF Unlock, Holds, Unlocked
<1>2. World' /\ Grants' /\ Rows' /\ UNCHANGED <<release, source, started, previews>>
      /\ \A s \in Replicas : grants'[s] \subseteq grants[s]
  BY <1>1 DEF PInv, World, Grants, Rows, world, cluster
<1>3. i \in Slots /\ t \in Task /\ GoodTask(t) /\ t.replica \in Replicas /\ t.outcome \in Ended \cup {"conflict"}
  <2>1. i \in Slots /\ GoodTask(t)
    BY DEF PInv, Tasks, Open
  <2>2. QED
    BY <1>1, <2>1 DEF GoodTask, Task
<1>4. (\E pc \in {"source"} \cup Ended : (Ends(i, pc) \/ Move(i, pc)) /\ refused' = refused) \/ Refuse(i)
  <2>1. CASE Move(i, "source") /\ refused' = refused
    BY <2>1
  <2>2. CASE Refuse(i)
    BY <2>2
  <2>3. CASE t.outcome # "conflict" /\ Ends(i, t.outcome) /\ refused' = refused
    BY <1>3, <2>3
  <2>4. QED
    BY <2>1, <2>2, <2>3, Zenon DEF Unlock
<1>5. PICK x : task' = [task EXCEPT ![i] = x] /\ Continues(i, x) /\ Steady(x) /\ ~Holds(x)
  BY <1>4, EndsMoves, RefuseMoves DEF PInv
<1>6. Tasks' /\ Tokens' /\ Fits' /\ Calm
  <2>1. RowsOf(i)
    BY <1>4, EndsMoves, RefuseMoves DEF PInv
  <2>2. QED
    BY <1>2, <1>5, <2>1, MovesOn
<1>7. Locks'
  <2>1. task'[i] = x /\ \A j \in Slots : j # i => task'[j] = task[j]
    BY <1>3, <1>5 DEF PInv, Tasks
  <2>2. \A j \in Open' : Holds(task'[j]) => j \in Open /\ j # i /\ task'[j] = task[j]
    BY <1>5, <2>1 DEF Open, Free
  <2>3. active' \in [Replicas -> SUBSET Releases]
    BY <1>1, <1>3 DEF PInv, Locks
  <2>4. ASSUME NEW j \in Open', Holds(task'[j])
        PROVE  task'[j].release \in active'[task'[j].replica]
    <3>1. j \in Open /\ j # i /\ task'[j] = task[j] /\ Holds(task[j])
      BY <2>2, <2>4
    <3>2. task[j].release \in active[task[j].replica] /\ task[j].replica \in Replicas
      BY <3>1 DEF PInv, Locks, Tasks, GoodTask
    <3>3. ~(task[j].replica = t.replica /\ task[j].release = t.release)
      BY <1>1, <3>1 DEF PInv, Locks
    <3>4. QED
      BY <1>1, <1>3, <3>1, <3>2, <3>3 DEF PInv, Locks
  <2>5. QED
    BY <2>2, <2>3, <2>4 DEF PInv, Locks
<1>8. QED
  BY <1>2, <1>6, <1>7 DEF PInv

\* An execution that ends or waits, at no lock.
LEMMA OutsideLock ==
  ASSUME PInv, NEW i \in Open, NEW x, task' = [task EXCEPT ![i] = x], Continues(i, x), Steady(x), ~Holds(x),
         UNCHANGED <<world, release, started, memory, refused>>, Rows', requests' \in Nat, events' \in Nat
  PROVE  PInv' /\ Calm
<1>1. /\ World' /\ Grants' /\ UNCHANGED <<previews, active>> /\ RowsOf(i)
      /\ \A s \in Replicas : grants'[s] \subseteq grants[s]
  BY DEF PInv, World, Grants, world, memory, RowsOf
<1>2. Tasks' /\ Tokens' /\ Fits' /\ Calm
  BY <1>1, MovesOn
<1>3. Locks'
  BY <1>1, MovedLocks DEF PInv
<1>4. QED
  BY <1>1, <1>2, <1>3 DEF PInv

LEMMA SaveSourceOK ==
  ASSUME PInv, NEW i \in Open, NEW ok \in BOOLEAN, SaveSource(i, ok)
  PROVE  PInv' /\ Calm
<1> DEFINE t == task[i]
<1>1. GoodTask(t) /\ t \in Task /\ t.pc = "source" /\ "succeeded" \in Ended
  BY DEF PInv, Tasks, GoodTask, SaveSource, Ended
<1>2. PICK x : task' = [task EXCEPT ![i] = x] /\ Continues(i, x) /\ Steady(x) /\ ~Holds(x)
  <2>1. Ends(i, "succeeded") /\ refused' = refused
    BY DEF SaveSource
  <2>2. QED
    BY <1>1, <2>1, EndsMoves DEF PInv, Ended
<1>3. requests' \in Nat /\ events' \in Nat
  BY Counters DEF SaveSource
<1>4. Rows'
  <2>1. release' = release
    BY DEF SaveSource
  <2>2. t.release \in Releases /\ t.chart \in Sources \cup {None}
    BY <1>1 DEF Task
  <2>3. source' \in [Releases -> Charts \cup {None}]
    BY <2>2 DEF SaveSource, Sources, PInv, Rows
  <2>4. QED
    BY <2>1, <2>3 DEF PInv, Rows
<1>5. QED
  BY <1>2, <1>3, <1>4, OutsideLock DEF SaveSource

-----------------------------------------------------------------------------
(* Helm.                                                                   *)

\* What is rendered has the type of a digest.
LEMMA RenderType ==
  ASSUME Rows, NEW ch, NEW loaded \in Contents, ch.op \in {"install", "upgrade"}, ch.release \in Releases,
         ch.chart \in Sources, HelmAccepts(ch.op, ch.release)
  PROVE  Render(ch, loaded) \in Digest
<1>1. CASE ch.op = "install"
  BY <1>1 DEF Render, Digest
<1>2. CASE ch.op = "upgrade"
  <2> DEFINE h == release[ch.release].history
  <2>1. release[ch.release].status # "absent"
    BY <1>2 DEF HelmAccepts
  <2>2. h \in Seq(Digest) /\ h # <<>>
    BY <2>1 DEF Rows, Row
  <2>3. Current(ch.release) \in Digest
    BY <2>2, LenProperties DEF Current
  <2>4. QED
    BY <1>2, <2>3 DEF Render, Digest
<1>3. QED
  BY <1>1, <1>2

\* What a digest does not show is of the same type.
LEMMA ShownType == ASSUME NEW d \in Digest PROVE Shown(d) \in Digest /\ Shown(d).content = d.content
BY DEF Shown, Digest

\* Helm's write to a release leaves the other executions as they were compared.
LEMMA FitsAlone ==
  ASSUME PInv, NEW i \in Open, Holds(task[i]), NEW x, task' = [task EXCEPT ![i] = x], x.pc # "verified",
         \A rel \in Releases \ {task[i].release} : release'[rel] = release[rel]
  PROVE  Fits'
<1>1. i \in Slots /\ task'[i] = x /\ \A j \in Slots : j # i => task'[j] = task[j]
  BY DEF PInv, Tasks, Open
<1>2. SUFFICES ASSUME OneReplica, NEW j \in Open', task'[j].pc = "verified"
               PROVE  Steady(task[j])'
  BY DEF Fits, OneReplica
<1>3. j \in Open /\ j # i /\ task'[j] = task[j]
  BY <1>1, <1>2 DEF Open, Free
<1>4. Steady(task[j]) /\ Holds(task[j]) /\ GoodTask(task[j]) /\ GoodTask(task[i])
  BY <1>2, <1>3 DEF PInv, Fits, Holds, Tasks
<1>5. task[j].release # task[i].release /\ task[j].release \in Releases
  <2>1. task[j].replica = task[i].replica
    BY <1>2, <1>4 DEF GoodTask, OneReplica
  <2>2. QED
    BY <1>3, <1>4, <2>1 DEF PInv, Locks, GoodTask, Task
<1>6. Current(task[j].release)' = Current(task[j].release)
  BY <1>3, <1>5 DEF Current
<1>7. QED
  BY <1>3, <1>4, <1>6 DEF Steady, Shown, Render

LEMMA HelmEndsOK ==
  ASSUME PInv, NEW i \in Open, NEW ok \in BOOLEAN, HelmEnds(i, ok)
  PROVE  PInv' /\ Calm
<1> DEFINE t == task[i]  rel == t.release  outcome == IF ok THEN "succeeded" ELSE "failed"
           gone == release[rel].status = "absent"
           status == IF ok THEN "deployed" ELSE "failed"
<1>1. /\ t.pc = "helm" /\ Holds(t) /\ UNCHANGED <<world, source, started, memory, refused>>
      /\ outcome \in Ended /\ Return(i, outcome) /\ RowsOf(i)
  BY DEF HelmEnds, Holds, Ended, RowsOf
<1>2. PICK x : /\ task' = [task EXCEPT ![i] = x] /\ Continues(i, x) /\ Steady(x)
               /\ x.release = rel /\ x.replica = t.replica
  <2> HIDE DEF outcome
  <2>1. outcome # "conflict" /\ outcome \in Ended \cup {"conflict"}
    BY <1>1 DEF Ended
  <2>2. QED
    BY <1>1, <2>1, ReturnMoves DEF PInv
<1>3. rel \in Releases
  BY DEF PInv, Tasks, GoodTask, Task
<1>4. requests' \in Nat /\ events' \in Nat
  BY Counters DEF HelmEnds
<1>5. /\ World' /\ Grants' /\ UNCHANGED <<previews, active>>
      /\ \A s \in Replicas : grants'[s] \subseteq grants[s]
  BY <1>1, <1>4 DEF PInv, World, Grants, world, memory
<1>6. Tasks' /\ Tokens'
  BY <1>1, <1>2, <1>5, Moved DEF PInv
<1>7. Locks'
  BY <1>1, <1>2, <1>5, MovedLocks DEF PInv
<1>8. Rows'
  <2>1. release \in [Releases -> Row] /\ source' \in [Releases -> Charts \cup {None}]
    BY <1>1 DEF PInv, Rows
  <2>2. \A y \in Releases : release[y].status = "absent" <=> release[y].history = <<>>
    BY DEF PInv, Rows
  <2>3. CASE gone \/ (ok /\ t.op = "remove")
    <3> DEFINE row == Absent
    <3>1. release' = [release EXCEPT ![rel] = row]
      BY <2>3 DEF HelmEnds
    <3>2. row \in Row /\ row.status = "absent" /\ row.history = <<>>
      BY DEF Absent, Row
    <3> HIDE DEF row
    <3>3. QED
      BY <1>3, <2>1, <2>2, <3>1, <3>2 DEF Rows
  <2>4. CASE ~gone /\ ~(ok /\ t.op = "remove")
    <3> DEFINE row == [release[rel] EXCEPT !.status = status]
    <3>1. release' = [release EXCEPT ![rel] = row]
      BY <1>3, <2>1, <2>4 DEF HelmEnds
    <3>2. release[rel] \in Row /\ release[rel].history # <<>>
      BY <1>3, <2>1, <2>2, <2>4
    <3>3. row \in Row /\ row.status # "absent" /\ row.history # <<>>
      BY <3>2 DEF Row
    <3> HIDE DEF row
    <3>4. QED
      BY <1>3, <2>1, <2>2, <3>1, <3>3 DEF Rows
  <2>5. QED
    BY <2>3, <2>4
<1>9. Fits'
  <2>1. task' = [task EXCEPT ![i] = [t EXCEPT !.pc = "returned", !.outcome = outcome]]
    BY <1>1 DEF Return, PInv, Tasks, Open
  <2>2. [t EXCEPT !.pc = "returned", !.outcome = outcome].pc # "verified"
    BY DEF PInv, Tasks, GoodTask, Task
  <2>3. \A y \in Releases \ {rel} : release'[y] = release[y]
    BY DEF HelmEnds, PInv, Rows
  <2>4. QED
    BY <1>1, <2>1, <2>2, <2>3, FitsAlone
<1>10. Calm
  <2>1. \A j \in Open : j # i => task'[j] = task[j]
    BY <1>2 DEF PInv, Tasks, Open
  <2>2. QED
    BY <1>1, <2>1 DEF Calm
<1>11. QED
  BY <1>5, <1>6, <1>7, <1>8, <1>9, <1>10 DEF PInv

\* The new revision of a release that Helm accepts.
LEMMA NewHistory ==
  ASSUME PInv, NEW i \in Open, task[i].pc = "verified", HelmAccepts(task[i].op, task[i].release)
  PROVE  LET t == task[i]  h == release[t.release].history
             new == CASE t.op = "install"  -> <<Render(t, t.loaded)>>
                      [] t.op = "upgrade"  -> Append(h, Render(t, t.loaded))
                      [] t.op = "rollback" -> Append(h, h[IF t.revision <= Len(h) THEN t.revision ELSE 1])
                      [] t.op = "remove"   -> h
         IN new \in Seq(Digest) /\ new # <<>>
<1> DEFINE t == task[i]  h == release[t.release].history
           k == IF t.revision <= Len(h) THEN t.revision ELSE 1
           new == CASE t.op = "install"  -> <<Render(t, t.loaded)>>
                    [] t.op = "upgrade"  -> Append(h, Render(t, t.loaded))
                    [] t.op = "rollback" -> Append(h, h[k])
                    [] t.op = "remove"   -> h
<1>0. SUFFICES new \in Seq(Digest) /\ new # <<>>
  BY Zenon
<1>1. GoodTask(t) /\ t \in Task /\ t.release \in Releases /\ t.op \in {"install", "upgrade", "rollback", "remove"}
  BY DEF PInv, Tasks, GoodTask, Task
<1>2. h \in Seq(Digest) /\ (release[t.release].status # "absent" => h # <<>>)
  BY <1>1 DEF PInv, Rows, Row
<1>3. ASSUME t.op \in {"install", "upgrade"} PROVE Render(t, t.loaded) \in Digest
  <2>1. t.loaded \in Contents /\ t.chart \in Sources
    BY <1>1, <1>3 DEF GoodTask
  <2>2. QED
    BY <1>1, <1>3, <2>1, RenderType DEF PInv
<1>4. CASE t.op = "install"
  <2>1. new = <<Render(t, t.loaded)>>
    BY <1>4, Zenon
  <2>2. QED
    BY <1>3, <1>4, <2>1
<1>5. CASE t.op = "upgrade"
  <2>1. new = Append(h, Render(t, t.loaded))
    BY <1>5, Zenon
  <2> DEFINE d == Render(t, t.loaded)
  <2>2. d \in Digest
    BY <1>3, <1>5
  <2> HIDE DEF d
  <2>3. Append(h, d) \in Seq(Digest) /\ Append(h, d) # <<>>
    BY <1>2, <2>2, AppendProperties
  <2>4. QED
    BY <2>1, <2>3 DEF d
<1>6. CASE t.op = "rollback"
  <2>1. new = Append(h, h[k])
    BY <1>6, Zenon
  <2>2. h # <<>>
    BY <1>2, <1>6 DEF HelmAccepts
  <2>3. t.revision \in Nat /\ t.revision >= 1
    BY <1>1, <1>6 DEF GoodTask, Task
  <2> HIDE DEF h
  <2>4. Len(h) \in Nat /\ Len(h) >= 1
    BY <1>2, <2>2, LenProperties
  <2>5. k \in 1..Len(h)
    BY <2>3, <2>4
  <2> HIDE DEF k
  <2> DEFINE d == h[k]
  <2>6. d \in Digest
    BY <1>2, <2>5, ElementOfSeq
  <2> HIDE DEF d
  <2>7. Append(h, d) \in Seq(Digest) /\ Append(h, d) # <<>>
    BY <1>2, <2>6, AppendProperties
  <2> HIDE DEF new
  <2>8. QED
    BY <2>1, <2>7 DEF d
<1>7. CASE t.op = "remove"
  <2>1. new = h
    BY <1>7, Zenon
  <2>2. h # <<>>
    BY <1>2, <1>7 DEF HelmAccepts
  <2> HIDE DEF new, h
  <2>3. QED
    BY <1>2, <2>1, <2>2
<1>8. QED
  BY <1>1, <1>4, <1>5, <1>6, <1>7

\* Helm has started: the token is used, and was not before.
LEMMA HelmStartsTokens ==
  ASSUME PInv, NEW i \in Open, task[i].pc = "verified", HelmAccepts(task[i].op, task[i].release), HelmStarts(i),
         task' = [task EXCEPT ![i] = [task[i] EXCEPT !.pc = "helm"]],
         started' = started \cup ({Turn(task[i])} \ ({0} \X Nat))
  PROVE  Tasks' /\ Tokens' /\ Locks'
<1> DEFINE t == task[i]  x == [t EXCEPT !.pc = "helm"]
<1>1. i \in Slots /\ GoodTask(t) /\ t \in Task
  BY DEF PInv, Tasks, GoodTask, Open
<1>2. /\ x \in Task /\ x.pc = "helm" /\ x.op = t.op /\ x.user = t.user /\ x.release = t.release
      /\ x.chart = t.chart /\ x.revision = t.revision /\ x.grant = t.grant /\ x.replica = t.replica
      /\ x.loaded = t.loaded /\ x.attempt = t.attempt
  BY <1>1, MovedTask
<1> HIDE DEF x
<1>3. GoodTask(x) /\ ~Waits(x) /\ Holds(t)
  BY <1>1, <1>2 DEF GoodTask, Waits, Holds
<1>4. task'[i] = x /\ \A j \in Slots : j # i => task'[j] = task[j]
  BY <1>1 DEF PInv, Tasks, x
<1>5. Open' = Open /\ UNCHANGED <<grants, previews, active, refused>>
  BY <1>2, <1>4, NoTaskDiffers DEF Open, Free, HelmStarts, memory
<1>6. Tasks'
  <2>1. task' \in [Slots -> Task \cup {NoTask}]
    BY <1>1, <1>2 DEF PInv, Tasks, x
  <2>2. QED
    BY <1>3, <1>4, <1>5, <2>1 DEF PInv, Tasks, Open
<1>7. Locks'
  BY <1>2, <1>3, MovedLocks, <1>5 DEF PInv, x
<1>8. Tokens'
  <2>1. /\ t.grant.token \in 0..previews /\ t.attempt \in 0..previews /\ previews \in Nat
        /\ started \subseteq (1..previews) \X (0..previews) /\ Waits(t)
    BY DEF PInv, Tokens, Waits
  <2>2. \A p \in started' : p \in started \/ (p = Turn(t) /\ t.grant.token # 0)
    BY <2>1 DEF Turn
  <2>3. started' \subseteq (1..previews) \X (0..previews)
    BY <2>1, <2>2 DEF Turn
  <2>4. ASSUME NEW r \in Replicas, NEW g \in grants[r] PROVE g.token \in 1..previews /\ <<g.token, 0>> \notin started'
    BY <2>2 DEF PInv, Tokens
  <2>5. ASSUME NEW j \in Open, Waits(task'[j]) PROVE Turn(task'[j]) \notin started'
    <3>1. j # i /\ task'[j] = task[j]
      BY <1>3, <1>4, <2>5 DEF Open
    <3>2. Turn(task[j]) \notin started
      BY <2>5, <3>1 DEF PInv, Tokens
    <3>3. Turn(task[j]) = Turn(t) => t.grant.token = 0
      BY <3>1 DEF PInv, Tokens, Turn
    <3>4. QED
      BY <2>2, <3>1, <3>2, <3>3
  <2>6. \A j \in Open : task'[j].grant = task[j].grant /\ task'[j].attempt = task[j].attempt
    BY <1>2, <1>4 DEF Open
  <2>7. \A j \in Open : Turn(task'[j]) = Turn(task[j])
    BY <2>6 DEF Turn
  <2>8. QED
    BY <1>5, <2>3, <2>4, <2>5, <2>6, <2>7 DEF PInv, Tokens
<1>9. QED
  BY <1>6, <1>7, <1>8

\* Helm starts, or refuses a release that changed meanwhile; nobody else does
\* anything.
LEMMA HelmStartsOK ==
  ASSUME PInv, NEW i \in Open, HelmStarts(i)
  PROVE  PInv' /\ \A j \in Open : j # i => task'[j] = task[j]
<1> DEFINE t == task[i]  rel == t.release  h == release[rel].history
           new == CASE t.op = "install"  -> <<Render(t, t.loaded)>>
                    [] t.op = "upgrade"  -> Append(h, Render(t, t.loaded))
                    [] t.op = "rollback" -> Append(h, h[IF t.revision <= Len(h) THEN t.revision ELSE 1])
                    [] t.op = "remove"   -> h
<1>1. /\ UNCHANGED <<world, source, memory, refused, requests, events>> /\ t.pc = "verified" /\ Holds(t)
      /\ RowsOf(i)
  BY DEF HelmStarts, Holds, RowsOf
<1>2. /\ i \in Slots /\ GoodTask(t) /\ t \in Task /\ rel \in Releases
      /\ World' /\ Grants' /\ UNCHANGED <<source, previews, active>>
      /\ \A s \in Replicas : grants'[s] \subseteq grants[s]
  BY <1>1 DEF PInv, World, Grants, world, memory, Open, Tasks, GoodTask, Task
<1>3. CASE Return(i, Refusal(t)) /\ UNCHANGED <<release, started>>
  <2>1. PICK x : /\ task' = [task EXCEPT ![i] = x] /\ Continues(i, x) /\ Steady(x)
                 /\ x.release = t.release /\ x.replica = t.replica
    BY <1>1, <1>3, ReturnMoves DEF PInv, Refusal, Ended
  <2>2. Tasks' /\ Tokens' /\ Fits'
    BY <1>1, <1>2, <1>3, <2>1, MovesOn
  <2>3. Locks'
    BY <1>1, <1>2, <2>1, MovedLocks DEF PInv
  <2>4. Rows'
    BY <1>2, <1>3 DEF PInv, Rows
  <2>5. \A j \in Open : j # i => task'[j] = task[j]
    BY <2>1 DEF PInv, Tasks, Open
  <2>6. QED
    BY <1>2, <2>2, <2>3, <2>4, <2>5 DEF PInv
<1>4. CASE /\ HelmAccepts(t.op, rel) /\ Move(i, "helm")
           /\ started' = started \cup ({<<t.grant.token, t.attempt>>} \ ({0} \X Nat))
           /\ release' = [release EXCEPT ![rel] = [status |-> "pending", history |-> new]]
  <2> DEFINE x == [t EXCEPT !.pc = "helm"]
  <2>1. task' = [task EXCEPT ![i] = x] /\ x.pc = "helm"
    BY <1>2, <1>4 DEF Move, PInv, Tasks, Task
  <2> HIDE DEF x
  <2>2. \A j \in Open : j # i => task'[j] = task[j]
    BY <2>1 DEF PInv, Tasks, Open
  <2>3. Tasks' /\ Tokens' /\ Locks'
    BY <1>1, <1>4, <2>1, HelmStartsTokens DEF x, Turn
  <2>4. Rows'
    <3>1. new \in Seq(Digest) /\ new # <<>>
      BY <1>1, <1>4, NewHistory
    <3> HIDE DEF new
    <3> DEFINE row == [status |-> "pending", history |-> new]
    <3>2. row \in Row /\ row.status # "absent" /\ row.history # <<>>
      BY <3>1 DEF Row
    <3>3. release' = [release EXCEPT ![rel] = row]
      BY <1>4
    <3> HIDE DEF row
    <3>4. QED
      BY <1>2, <3>2, <3>3 DEF PInv, Rows
  <2>5. Fits'
    <3>1. \A y \in Releases \ {rel} : release'[y] = release[y]
      BY <1>4 DEF PInv, Rows
    <3>2. QED
      BY <1>1, <2>1, <3>1, FitsAlone
  <2>6. QED
    BY <1>2, <2>2, <2>3, <2>4, <2>5 DEF PInv
<1>5. QED
  BY <1>3, <1>4, Zenon DEF HelmStarts

-----------------------------------------------------------------------------
(* Previews and confirmations.                                             *)

\* The other executions do not notice one that is added.
LEMMA FitsAdded ==
  ASSUME PInv, NEW i \in Free, NEW t, t.pc = "queued", task' = [task EXCEPT ![i] = t], release' = release
  PROVE  Fits' /\ Calm
<1>1. i \in Slots /\ task'[i] = t /\ \A j \in Slots : j # i => task'[j] = task[j]
  BY DEF PInv, Tasks, Free
<1>2. \A j \in Open : j # i /\ task'[j] = task[j]
  BY <1>1 DEF Open
<1>3. ASSUME NEW j \in Open', task'[j].pc = "verified" PROVE j \in Open /\ task'[j] = task[j]
  BY <1>1, <1>3 DEF Open, Free
<1>4. Fits'
  <2> SUFFICES ASSUME OneReplica, NEW j \in Open', task'[j].pc = "verified"
               PROVE  Steady(task[j])'
    BY DEF Fits, OneReplica
  <2>1. Steady(task[j]) /\ task'[j] = task[j]
    BY <1>3 DEF PInv, Fits
  <2>2. PICK x : x = task[j]
    OBVIOUS
  <2>3. Steady(x)'
    BY <2>1, <2>2 DEF Steady, Shown, Render, Current
  <2>4. QED
    BY <2>1, <2>2, <2>3
<1>5. Calm
  BY <1>2 DEF Calm
<1>6. QED
  BY <1>4, <1>5

LEMMA AddedOK ==
  ASSUME PInv, NEW t, Add(t), GoodTask(t), t.pc = "queued",
         \A r \in Replicas : grants'[r] \subseteq grants[r],
         \/ t.grant = NoGrant /\ t.attempt = 0 /\ previews' = previews
         \/ /\ \E r \in Replicas : t.grant \in grants[r] /\ t.grant \notin grants'[r]
            /\ t.attempt = 0 /\ previews' = previews
         \/ t.grant.token \in 0..previews /\ t.attempt = previews + 1 /\ previews' = previews + 1,
         World', Grants', Rows', UNCHANGED <<release, started, refused, active>>
  PROVE  PInv' /\ Calm
<1>1. PICK i \in Free : task' = [task EXCEPT ![i] = t]
  BY DEF Add
<1>2. Tasks' /\ Tokens' /\ Locks'
  BY <1>1, Added DEF PInv
<1>3. Fits' /\ Calm
  BY <1>1, FitsAdded
<1>4. QED
  BY <1>2, <1>3 DEF PInv

\* A step that changes no execution, no release and no lock, and issues no grant.
LEMMA Bystands ==
  ASSUME PInv, UNCHANGED <<task, refused, release, started, previews, active>>,
         \A r \in Replicas : grants'[r] \subseteq grants[r], World', Grants', Rows'
  PROVE  PInv' /\ Calm
<1>1. Open' = Open
  BY DEF Open, Free
<1>2. Tasks' /\ Tokens' /\ Locks'
  BY <1>1 DEF PInv, Tasks, Tokens, Locks
<1>3. Fits' /\ Calm
  BY <1>1 DEF PInv, Fits, Calm, OneReplica, Steady, Shown, Render, Current
<1>4. QED
  BY <1>2, <1>3 DEF PInv

\* Fewer grants, of one replica.
LEMMA FewerGrants ==
  ASSUME PInv, NEW r \in Replicas, NEW S, grants' = [grants EXCEPT ![r] = @ \ S]
  PROVE  Grants' /\ \A s \in Replicas : grants'[s] \subseteq grants[s] /\ (s # r => grants'[s] = grants[s])
<1>1. grants \in [Replicas -> SUBSET Grant] /\ IsFiniteSet(grants[r]) /\ Cardinality(grants[r]) <= MaxGrants
      /\ MaxGrants \in Nat
  BY PackageAssumption DEF PInv, Grants
<1>2. grants'[r] = grants[r] \ S /\ \A s \in Replicas : s # r => grants'[s] = grants[s]
  BY <1>1
<1>3. IsFiniteSet(grants'[r]) /\ Cardinality(grants'[r]) <= Cardinality(grants[r])
  BY <1>1, <1>2, FS_Subset
<1>4. Cardinality(grants'[r]) \in Nat /\ Cardinality(grants[r]) \in Nat
  BY <1>1, <1>3, FS_CardinalityType
<1>5. Cardinality(grants'[r]) <= MaxGrants
  BY <1>1, <1>3, <1>4
<1>6. grants' \in [Replicas -> SUBSET Grant]
  BY <1>1
<1>7. QED
  BY <1>2, <1>3, <1>5, <1>6 DEF PInv, Grants

\* A new execution is legal, and asks for what it was granted.
LEMMA NewGranted ==
  ASSUME PInv, NEW r \in Replicas, NEW g \in grants[r], NEW u \in Users \cup {NoUser}, NEW ch \in Change,
         Matches(g, u, ch), NEW t, t = NewTask(ch.op, u, ch.release, ch.chart, 0, g)
  PROVE  GoodTask(t) /\ t.pc = "queued" /\ t.grant = g /\ t.attempt = 0
<1>1. g \in Grant /\ g.user = u /\ g.change = ch
  BY DEF PInv, Grants, Matches
<1>2. /\ ch.op \in {"install", "upgrade"} /\ ch.release \in Releases /\ ch.chart \in Sources
      /\ ch = [op |-> ch.op, release |-> ch.release, chart |-> ch.chart]
  BY DEF Change
<1>3. t \in Task
  BY <1>1, <1>2 DEF NewTask, Task, Ended
<1>4. /\ t.op = ch.op /\ t.user = u /\ t.release = ch.release /\ t.chart = ch.chart
      /\ t.revision = 0 /\ t.grant = g /\ t.pc = "queued" /\ t.attempt = 0
  BY DEF NewTask
<1>5. QED
  BY <1>1, <1>2, <1>3, <1>4, NoGrantDiffers DEF GoodTask, Holds

\* The upgrade manager executes its own changes, at its replica.
LEMMA ConfirmOK ==
  ASSUME PInv, NEW r \in Replicas, NEW u \in Users, NEW ch \in Change, NEW g \in grants[r], Confirm(r, u, g, ch)
  PROVE  PInv' /\ Calm
<1>1. /\ UNCHANGED <<world, cluster, uploads, active, previews, refused>>
      /\ grants' = [grants EXCEPT ![r] = @ \ {g}]
  BY DEF Confirm, Consume
<1>2. Grants' /\ \A s \in Replicas : grants'[s] \subseteq grants[s]
  BY <1>1, FewerGrants
<1>3. g \notin grants'[r]
  BY <1>1 DEF PInv, Grants
<1>4. World'
  <2>1. requests' \in Nat /\ events' \in Nat
    BY Counters DEF Confirm, Submit
  <2>2. QED
    BY <1>1, <2>1 DEF PInv, World, world
<1>5. Rows' /\ UNCHANGED <<release, started, refused, previews, active>>
  BY <1>1 DEF PInv, Rows, cluster
<1>6. CASE Matches(g, u, ch) /\ Submit(NewTask(ch.op, u, ch.release, ch.chart, 0, g))
  <2> DEFINE t == NewTask(ch.op, u, ch.release, ch.chart, 0, g)
  <2>3. GoodTask(t) /\ t.pc = "queued" /\ t.grant = g /\ t.attempt = 0
    <3>1. u \in Users \cup {NoUser} /\ Matches(g, u, ch)
      BY <1>6
    <3>2. QED
      BY <3>1, NewGranted
  <2>4. Add(t)
    BY <1>6 DEF Submit
  <2> HIDE DEF t
  <2>5. QED
    BY <1>2, <1>3, <1>4, <1>5, <2>3, <2>4, AddedOK
<1>7. CASE UNCHANGED task
  BY <1>2, <1>4, <1>5, <1>7, Bystands
<1>8. QED
  BY <1>6, <1>7 DEF Confirm

LEMMA QueueTaskOK ==
  ASSUME PInv, NEW u, NEW op, NEW rel \in Releases, NEW k \in Nat, QueueTask(u, op, rel, k)
  PROVE  PInv' /\ Calm
<1> DEFINE t == NewTask(op, u, rel, None, k, NoGrant)
<1>1. /\ UNCHANGED <<world, cluster, memory, refused, events>> /\ Asks /\ Add(t)
      /\ u \in Users /\ op \in {"rollback", "remove"} /\ (op = "rollback" => k >= 1)
  BY DEF QueueTask, Submit
<1>2. requests' \in Nat /\ events' \in Nat
  BY <1>1, Counters
<1>3. /\ World' /\ Rows' /\ Grants' /\ UNCHANGED <<release, started, refused, previews, active>>
      /\ \A r \in Replicas : grants'[r] \subseteq grants[r]
  BY <1>1, <1>2 DEF PInv, World, Rows, Grants, world, cluster, memory
<1>4. /\ t.op = op /\ t.user = u /\ t.release = rel /\ t.chart = None /\ t.revision = k
      /\ t.grant = NoGrant /\ t.pc = "queued" /\ t.replica = None /\ t.loaded = None /\ t.outcome = "failed"
      /\ t.attempt = 0
  BY DEF NewTask
<1>5. t \in Task
  BY <1>1 DEF NewTask, Task, Ended
<1> HIDE DEF t
<1>6. GoodTask(t)
  BY <1>1, <1>4, <1>5 DEF GoodTask, Holds
<1>7. QED
  BY <1>1, <1>3, <1>4, <1>6, AddedOK

\* A retry is a turn of its own.
LEMMA RetryOK ==
  ASSUME PInv, NEW t, Retry(t)
  PROVE  PInv' /\ Calm
<1> DEFINE x == [t EXCEPT !.attempt = previews + 1]
<1>1. /\ UNCHANGED <<world, cluster, uploads, grants, active, refused, events>> /\ Asks /\ Add(x)
      /\ previews' = previews + 1 /\ t \in refused
  BY DEF Retry, Submit
<1>2. GoodTask(t) /\ t \in Task /\ t.pc = "queued" /\ t.grant.token \in 0..previews /\ previews \in Nat
  BY <1>1 DEF PInv, Tasks, Tokens, GoodTask
<1>3. /\ x \in Task /\ x.attempt = previews + 1 /\ x.op = t.op /\ x.user = t.user /\ x.release = t.release
      /\ x.chart = t.chart /\ x.revision = t.revision /\ x.grant = t.grant /\ x.pc = t.pc
      /\ x.replica = t.replica /\ x.loaded = t.loaded
  BY <1>2 DEF Task
<1> HIDE DEF x
<1>4. GoodTask(x)
  BY <1>2, <1>3 DEF GoodTask, Holds
<1>5. requests' \in Nat /\ events' \in Nat
  BY <1>1, Counters
<1>6. /\ World' /\ Rows' /\ Grants' /\ UNCHANGED <<release, started, refused, active>>
      /\ \A r \in Replicas : grants'[r] \subseteq grants[r]
  BY <1>1, <1>5 DEF PInv, World, Rows, Grants, world, cluster
<1>7. QED
  BY <1>1, <1>2, <1>3, <1>4, <1>6, AddedOK

\* A preview's grant is new, and of what renders now.
LEMMA IssueOK ==
  ASSUME PInv, NEW r \in Replicas, NEW u \in Users \cup {NoUser}, NEW ch \in Change, IssueGrant(r, u, ch),
         UNCHANGED <<world, cluster, uploads, active, task, refused, events>>, requests' \in Nat
  PROVE  PInv' /\ Calm
<1> DEFINE g == Previewed(r, u, ch, previews + 1)
<1>1. /\ HelmAccepts(ch.op, ch.release) /\ Cardinality(grants[r]) < MaxGrants
      /\ previews' = previews + 1 /\ grants' = [grants EXCEPT ![r] = @ \cup {g}]
  BY DEF IssueGrant, MayPreview
<1>2. World' /\ Rows' /\ UNCHANGED <<release, started, active>>
  BY DEF PInv, World, Rows, world, cluster
<1>3. previews \in Nat /\ started \subseteq (1..previews) \X (0..previews)
  BY DEF PInv, Tokens
<1>4. g \in Grant /\ g.token = previews + 1
  <2>1. ch.op \in {"install", "upgrade"} /\ ch.release \in Releases /\ ch.chart \in Sources
    BY DEF Change
  <2>2. Served(ch.chart) \in Contents
    BY <2>1 DEF Served, Contents, PInv, World
  <2>3. Shown(Render(ch, Served(ch.chart))) \in Digest
    BY <1>1, <2>1, <2>2, RenderType, ShownType DEF PInv
  <2>4. CanExecute(u, Shown(Render(ch, Served(ch.chart))))
    BY Zenon DEF IssueGrant, Previewed
  <2>5. QED
    BY <1>3, <2>3, <2>4 DEF Previewed, Grant, CanExecute
<1> HIDE DEF g
<1>5. grants'[r] = grants[r] \cup {g} /\ \A s \in Replicas : s # r => grants'[s] = grants[s]
  <2>1. grants \in [Replicas -> SUBSET Grant]
    BY DEF PInv, Grants
  <2>2. QED
    BY <1>1, <2>1
<1>6. Grants'
  <2>1. IsFiniteSet(grants[r]) /\ MaxGrants \in Nat
    BY PackageAssumption DEF PInv, Grants
  <2>2. IsFiniteSet(grants'[r]) /\ Cardinality(grants'[r]) <= Cardinality(grants[r]) + 1
        /\ Cardinality(grants[r]) \in Nat /\ Cardinality(grants'[r]) \in Nat
    <3>1. IsFiniteSet(grants'[r])
          /\ (Cardinality(grants'[r]) = Cardinality(grants[r]) \/ Cardinality(grants'[r]) = Cardinality(grants[r]) + 1)
      <4> DEFINE G == grants[r]
      <4>1. IsFiniteSet(G)
        BY <2>1
      <4> HIDE DEF G
      <4>2. IsFiniteSet(G \cup {g}) /\ (Cardinality(G \cup {g}) = Cardinality(G) \/ Cardinality(G \cup {g}) = Cardinality(G) + 1)
        BY <4>1, FS_AddElement
      <4>3. QED
        BY <1>5, <4>2, Zenon DEF G
    <3>2. Cardinality(grants[r]) \in Nat /\ Cardinality(grants'[r]) \in Nat
      BY <2>1, <3>1, FS_CardinalityType
    <3>3. QED
      BY <3>1, <3>2
  <2>3. Cardinality(grants'[r]) <= MaxGrants
    BY <1>1, <2>1, <2>2
  <2>4. grants' \in [Replicas -> SUBSET Grant]
    BY <1>1, <1>4 DEF PInv, Grants
  <2>5. QED
    BY <1>5, <2>2, <2>3, <2>4 DEF PInv, Grants
<1>7. Open' = Open /\ task' = task
  BY DEF Open, Free
<1>8. Tasks' /\ Locks'
  BY <1>2, <1>7 DEF PInv, Tasks, Locks
<1>9. Tokens'
  <2>1. \A s \in Replicas : \A h \in grants[s] : h.token \in 1..previews /\ <<h.token, 0>> \notin started
    BY DEF PInv, Tokens
  <2>2. ASSUME NEW s \in Replicas, NEW h \in grants'[s]
        PROVE  (s = r /\ h = g) \/ (h \in grants[s] /\ h.token # g.token)
    <3>1. (s = r /\ h = g) \/ h \in grants[s]
      BY <1>5, <2>2, Zenon
    <3>2. h \in grants[s] => h.token \in 1..previews
      BY <2>1, Zenon
    <3>3. QED
      BY <1>3, <1>4, <3>1, <3>2
  <2>3. g.token \in 1..previews' /\ <<g.token, 0>> \notin started
    BY <1>1, <1>3, <1>4
  <2>4. \A i \in Open : task[i].grant.token \in 0..previews /\ task[i].attempt \in 0..previews
                       /\ task[i].grant.token # g.token
    BY <1>3, <1>4 DEF PInv, Tokens
  <2>5. /\ previews' \in Nat /\ started' \subseteq (1..previews') \X (0..previews')
        /\ \A s \in Replicas : \A h \in grants'[s] : h.token \in 1..previews' /\ <<h.token, 0>> \notin started'
    BY <1>1, <1>2, <1>3, <2>1, <2>2, <2>3
  <2>6. \A p, q \in Replicas : \A x \in grants'[p], y \in grants'[q] : x.token = y.token => p = q /\ x = y
    BY <2>2 DEF PInv, Tokens
  <2>7. \A i \in Open : \A s \in Replicas : \A h \in grants'[s] : <<h.token, 0>> # Turn(task[i])
    BY <2>2, <2>4 DEF PInv, Tokens, Turn
  <2>8. \A i \in Open : task[i].grant.token \in 0..previews' /\ task[i].attempt \in 0..previews'
    BY <1>1, <1>3, <2>4
  <2>9. \A t \in refused : t.grant.token \in 0..previews'
    BY <1>1, <1>3 DEF PInv, Tokens
  <2>10. QED
    BY <1>2, <1>7, <2>5, <2>6, <2>7, <2>8, <2>9 DEF PInv, Tokens
<1>10. Fits' /\ Calm
  BY <1>2, <1>7 DEF PInv, Fits, Calm, OneReplica, Steady, Shown, Render, Current
<1>11. QED
  BY <1>2, <1>6, <1>8, <1>9, <1>10 DEF PInv

LEMMA PreviewOK ==
  ASSUME PInv, NEW r \in Replicas, NEW u \in Users, NEW ch \in Change, Preview(r, u, ch)
  PROVE  PInv' /\ Calm
<1>1. requests' \in Nat
  BY DEF Preview, Asks, PInv, World
<1>2. IssueGrant(r, u, ch) /\ UNCHANGED <<world, cluster, uploads, active, task, refused, events>>
  BY DEF Preview
<1>3. u \in Users \cup {NoUser}
  OBVIOUS
<1>4. QED
  BY <1>1, <1>2, <1>3, IssueOK

-----------------------------------------------------------------------------
(* The catalog, the environment, and a replica that dies.                  *)

\* What changes neither an execution nor a release nor a grant.
LEMMA CatalogOK ==
  ASSUME PInv, NEW r \in Replicas, NEW u \in Users, Upload(r, u) \/ UploadExpires(r, u)
  PROVE  PInv' /\ Calm
<1>1. UNCHANGED <<world, cluster, grants, active, previews, task, refused, events>>
      /\ (Asks \/ requests' = requests) /\ uploads' \in [Replicas -> SUBSET Users]
  BY DEF Upload, UploadExpires, PInv, World
<1>2. requests' \in Nat /\ events' \in Nat
  BY <1>1, Counters
<1>3. /\ World' /\ Rows' /\ Grants' /\ UNCHANGED <<release, started>>
      /\ \A s \in Replicas : grants'[s] \subseteq grants[s]
  BY <1>1, <1>2 DEF PInv, World, Rows, Grants, world, cluster
<1>4. QED
  BY <1>1, <1>3, Bystands

LEMMA OutsideOK ==
  ASSUME PInv,
         \/ \E c \in Charts : Publish(c)
         \/ \E u \in Users : Revoke(u)
         \/ \E u \in Users, rel \in Releases, s \in Charts : CheckUpgrade(u, rel, s)
  PROVE  PInv' /\ Calm
<1>1. /\ UNCHANGED <<memory, release, started, task, refused>>
      /\ Asks \/ requests' = requests
      /\ Happens \/ events' = events
  BY DEF Publish, Revoke, CheckUpgrade, cluster
<1>2. requests' \in Nat /\ events' \in Nat
  BY <1>1, Counters
<1>3. /\ content' \in [Charts -> Nat] /\ allowed' \subseteq Users \cup {NoUser}
      /\ source' \in [Releases -> Charts \cup {None}]
  <2>1. content \in [Charts -> Nat] /\ allowed \subseteq Users \cup {NoUser}
        /\ source \in [Releases -> Charts \cup {None}]
    BY DEF PInv, World, Rows
  <2>2. CASE \E c \in Charts : Publish(c)
    BY <2>1, <2>2 DEF Publish, cluster
  <2>3. CASE \E u \in Users : Revoke(u)
    BY <2>1, <2>3 DEF Revoke, cluster
  <2>4. CASE \E u \in Users, rel \in Releases, s \in Charts : CheckUpgrade(u, rel, s)
    BY <2>1, <2>4 DEF CheckUpgrade, world
  <2>5. QED
    BY <2>2, <2>3, <2>4
<1>4. /\ World' /\ Rows' /\ Grants' /\ UNCHANGED <<previews, active>>
      /\ \A s \in Replicas : grants'[s] \subseteq grants[s]
  BY <1>1, <1>2, <1>3 DEF PInv, World, Rows, Grants, memory
<1>5. QED
  BY <1>1, <1>4, Bystands

LEMMA PreviewExpiresOK ==
  ASSUME PInv, NEW r \in Replicas, NEW g \in grants[r], PreviewExpires(r, g)
  PROVE  PInv' /\ Calm
<1>1. UNCHANGED <<world, cluster, uploads, active, previews, task, refused, requests, events>>
      /\ grants' = [grants EXCEPT ![r] = @ \ {g}]
  BY DEF PreviewExpires
<1>2. Grants' /\ \A s \in Replicas : grants'[s] \subseteq grants[s]
  BY <1>1, FewerGrants
<1>3. World' /\ Rows' /\ UNCHANGED <<release, started>>
  BY <1>1 DEF PInv, World, Rows, world, cluster
<1>4. QED
  BY <1>1, <1>2, <1>3, Bystands

\* With the replica go its locks, its grants, and whoever held or had them.
LEMMA CrashOK ==
  ASSUME PInv, NEW r \in Replicas, CrashEffect(r)
  PROVE  PInv' /\ Calm
<1>1. /\ UNCHANGED <<world, cluster, previews, refused, requests>> /\ Happens
      /\ uploads' = [uploads EXCEPT ![r] = {}] /\ grants' = [grants EXCEPT ![r] = {}]
      /\ active' = [active EXCEPT ![r] = {}]
      /\ task' = [i \in Slots |-> IF i \in Open /\ task[i].replica = r THEN NoTask ELSE task[i]]
  BY DEF CrashEffect
<1>2. World' /\ Rows' /\ UNCHANGED <<release, started>>
  <2>1. events' \in Nat
    BY <1>1, Counters
  <2>2. QED
    BY <1>1, <2>1 DEF PInv, World, Rows, world, cluster
<1>3. grants' = [grants EXCEPT ![r] = @ \ grants[r]]
  BY <1>1 DEF PInv, Grants
<1>4. Grants' /\ \A s \in Replicas : grants'[s] \subseteq grants[s]
  BY <1>3, FewerGrants
<1>5. \A i \in Open' : i \in Open /\ task'[i] = task[i] /\ task[i].replica # r
  BY <1>1 DEF Open, Free
<1>6. Tasks'
  <2>1. task' \in [Slots -> Task \cup {NoTask}]
    BY <1>1 DEF PInv, Tasks
  <2>2. QED
    BY <1>1, <1>5, <2>1 DEF PInv, Tasks
<1>7. Tokens'
  <2>1. previews' = previews /\ started' = started
    BY <1>1, <1>2
  <2>2. \A i \in Open' : (Waits(task'[i]) => Waits(task[i])) /\ Turn(task'[i]) = Turn(task[i])
    BY <1>5
  <2>3. refused' = refused
    BY <1>1
  <2>4. QED
    BY <1>4, <1>5, <2>1, <2>2, <2>3 DEF PInv, Tokens
<1>8. Locks'
  <2>1. active' \in [Replicas -> SUBSET Releases] /\ \A s \in Replicas : s # r => active'[s] = active[s]
    BY <1>1 DEF PInv, Locks
  <2>2. \A i \in Open : Holds(task[i]) => task[i].replica \in Replicas
    BY DEF PInv, Tasks, GoodTask
  <2>3. QED
    BY <1>5, <2>1, <2>2 DEF PInv, Locks
<1>9. Fits'
  <2> SUFFICES ASSUME OneReplica, NEW j \in Open', task'[j].pc = "verified"
               PROVE  Steady(task[j])'
    BY DEF Fits, OneReplica
  <2>1. Steady(task[j]) /\ task'[j] = task[j]
    BY <1>5 DEF PInv, Fits
  <2>2. QED
    BY <1>2, <2>1 DEF Steady, Shown, Render, Current
<1>10. Calm
  <2>1. \A i \in Open : task'[i] = NoTask \/ task'[i] = task[i]
    BY <1>1 DEF Open
  <2>2. QED
    BY <2>1 DEF Calm, NoTask
<1>11. QED
  BY <1>2, <1>4, <1>6, <1>7, <1>8, <1>9, <1>10 DEF PInv

\* Everything that PackageService does.
LEMMA PackageStep ==
  ASSUME PInv, Execute \/ Requests \/ Environment
  PROVE  PInv' /\ (Calm \/ \E i \in Open : HelmStarts(i) /\ \A j \in Open : j # i => task'[j] = task[j])
<1>1. CASE Execute
  <2> SUFFICES ASSUME NEW i \in Open,
                      \/ \E r \in Replicas : Begin(r, i)
                      \/ Verify(i) \/ HelmStarts(i) \/ Unlock(i)
                      \/ \E ok \in BOOLEAN : HelmEnds(i, ok) \/ SaveSource(i, ok)
               PROVE  PInv' /\ (Calm \/ (HelmStarts(i) /\ \A j \in Open : j # i => task'[j] = task[j]))
    BY <1>1 DEF Execute
  <2>1. CASE \E r \in Replicas : Begin(r, i)
    BY <2>1, BeginOK
  <2>2. CASE Verify(i)
    BY <2>2, VerifyOK, PackageAssumption
  <2>3. CASE HelmStarts(i)
    BY <2>3, HelmStartsOK
  <2>4. CASE Unlock(i)
    BY <2>4, UnlockOK
  <2>5. CASE \E ok \in BOOLEAN : HelmEnds(i, ok)
    BY <2>5, HelmEndsOK
  <2>6. CASE \E ok \in BOOLEAN : SaveSource(i, ok)
    BY <2>6, SaveSourceOK
  <2>7. QED
    BY <2>1, <2>2, <2>3, <2>4, <2>5, <2>6
<1>2. CASE Requests
  <2>1. ASSUME NEW r \in Replicas, NEW u \in Users, Upload(r, u) \/ UploadExpires(r, u) PROVE PInv' /\ Calm
    BY <2>1, CatalogOK
  <2>2. ASSUME NEW r \in Replicas, NEW u \in Users, NEW ch \in Change, Preview(r, u, ch) PROVE PInv' /\ Calm
    BY <2>2, PreviewOK
  <2>3. ASSUME NEW r \in Replicas, NEW u \in Users, NEW ch \in Change, NEW g \in grants[r], Confirm(r, u, g, ch)
        PROVE  PInv' /\ Calm
    BY <2>3, ConfirmOK
  <2>4. ASSUME NEW u \in Users, NEW rel \in Releases, NEW op \in {"rollback", "remove"}, NEW k \in 0..1,
               QueueTask(u, op, rel, k)
        PROVE  PInv' /\ Calm
    BY <2>4, QueueTaskOK
  <2>5. ASSUME NEW u \in Users, NEW rel \in Releases, NEW s \in Charts, CheckUpgrade(u, rel, s)
        PROVE  PInv' /\ Calm
    BY <2>5, OutsideOK
  <2>6. ASSUME NEW t \in refused, Retry(t) PROVE PInv' /\ Calm
    BY <2>6, RetryOK
  <2>7. QED
    BY <1>2, <2>1, <2>2, <2>3, <2>4, <2>5, <2>6 DEF Requests
<1>3. CASE Environment
  BY <1>3, OutsideOK, PreviewExpiresOK DEF Environment
<1>4. QED
  BY <1>1, <1>2, <1>3

-----------------------------------------------------------------------------
(* Policies and checks.                                                    *)

LEMMA NoCheckType == NoCheck \in Check /\ NoCheck.pc = "none"
BY DEF NoCheck, Check

LEMMA CheckMoves ==
  ASSUME Checks, NEW r \in Replicas, NEW a \in Actors, NEW k \in Check,
         k.pc # "none" => k.release \in Releases /\ k.chart \in Charts,
         check' = [check EXCEPT ![r][a] = k]
  PROVE  Checks'
<1>1. check[r] \in [Actors -> Check] /\ check' = [check EXCEPT ![r] = [check[r] EXCEPT ![a] = k]]
  BY DEF Checks
<1>2. check' \in [Replicas -> [Actors -> Check]]
  BY <1>1 DEF Checks
<1>3. \A s \in Replicas, b \in Actors : check'[s][b] = check[s][b] \/ check'[s][b] = k
  BY <1>1 DEF Checks
<1>4. QED
  BY <1>2, <1>3 DEF Checks

LEMMA GotoOK ==
  ASSUME Checks, NEW r \in Replicas, NEW a \in Actors, check[r][a].pc # "none", NEW n \in Nat,
         NEW pc \in {"compare", "inspect", "approve", "confirm", "wait"},
         \/ check' = [check EXCEPT ![r][a].pc = pc]
         \/ check' = [check EXCEPT ![r][a].pc = pc, ![r][a].grant = n]
  PROVE  Checks'
<1> DEFINE k == check[r][a]  x == [k EXCEPT !.pc = pc]  y == [k EXCEPT !.pc = pc, !.grant = n]
<1>1. k \in Check /\ k.release \in Releases /\ k.chart \in Charts
  BY DEF Checks
<1>2. check' = [check EXCEPT ![r][a] = x] \/ check' = [check EXCEPT ![r][a] = y]
  BY <1>1 DEF Checks
<1>3. x \in Check /\ x.release = k.release /\ x.chart = k.chart /\ y \in Check /\ y.release = k.release /\ y.chart = k.chart
  BY <1>1 DEF Check
<1> HIDE DEF x, y
<1>4. QED
  BY <1>1, <1>2, <1>3, CheckMoves

LEMMA StartOK ==
  ASSUME PInv, Checks, NEW r \in Replicas, NEW a \in Actors, NEW item \in Item, Start(r, a, item)
  PROVE  Checks'
<1> DEFINE k == [pc |-> "compare", id |-> item.id, release |-> item.release, chart |-> item.chart, grant |-> 0]
<1>1. k \in Check /\ k.release \in Releases /\ k.chart \in Charts
  BY DEF Item, Check
<1>2. check' = [check EXCEPT ![r][a] = k]
  BY DEF Start
<1> HIDE DEF k
<1>3. QED
  BY <1>1, <1>2, CheckMoves

\* A row of the table is replaced.
LEMMA PolicyWritten ==
  ASSUME Policies, NEW rel \in Releases, NEW row \in Policy, row.id # 0 => row.chart \in Charts,
         policy' = [policy EXCEPT ![rel] = row]
  PROVE  Policies'
<1>1. policy' \in [Releases -> Policy]
  BY DEF Policies
<1>2. \A y \in Releases : policy'[y] = row \/ policy'[y] = policy[y]
  BY DEF Policies
<1>3. QED
  BY <1>1, <1>2 DEF Policies, Present

LEMMA NoPolicyType == NoPolicy \in Policy /\ NoPolicy.id = 0
<1>1. PICK no \in BOOLEAN : no = FALSE
  OBVIOUS
<1> DEFINE row == [id |-> 0, chart |-> None, enabled |-> no, due |-> no, status |-> "idle"]
<1>2. row \in Policy /\ row.id = 0
  BY DEF Policy
<1>3. NoPolicy = row
  BY <1>1, Zenon DEF NoPolicy
<1> HIDE DEF row
<1>4. QED
  BY <1>2, <1>3

\* The result of a check is written to the row it was loaded from, or nowhere.
LEMMA FinishOK ==
  ASSUME Policies, Checks, NEW r \in Replicas, NEW a \in Actors, check[r][a].pc # "none",
         NEW status \in {"failed", "current", "blocked", "upgraded"}, Finish(r, a, status)
  PROVE  Policies' /\ Checks'
<1> DEFINE k == check[r][a]  rel == k.release
<1>1. rel \in Releases /\ policy[rel] \in Policy
  BY DEF Checks, Policies
<1>2. Checks'
  BY NoCheckType, CheckMoves DEF Finish
<1>3. PICK no \in BOOLEAN : no = FALSE
  OBVIOUS
<1>4. CASE policy[rel].id = k.id
  <2> DEFINE row == [policy[rel] EXCEPT !.status = status, !.due = no]
  <2>1. policy' = [policy EXCEPT ![rel].status = status, ![rel].due = no]
    BY <1>3, <1>4, Zenon DEF Finish
  <2>2. policy' = [policy EXCEPT ![rel] = row]
    BY <1>1, <2>1 DEF Policies
  <2>3. row \in Policy /\ row.chart = policy[rel].chart /\ row.id = policy[rel].id
    BY <1>1 DEF Policy
  <2> HIDE DEF row
  <2>4. row.id # 0 => row.chart \in Charts
    BY <1>1, <2>3 DEF Policies, Present
  <2> HIDE DEF rel
  <2>5. Policies'
    BY <1>1, <2>2, <2>3, <2>4, PolicyWritten
  <2>6. QED
    BY <1>2, <2>5
<1>5. CASE policy[rel].id # k.id
  <2>1. policy' = policy
    BY <1>5, Zenon DEF Finish
  <2>2. QED
    BY <1>2, <2>1 DEF Policies, Present
<1>6. QED
  BY <1>4, <1>5

LEMMA PackageStays ==
  ASSUME PInv, UNCHANGED pstate, Asks \/ requests' = requests
  PROVE  PInv' /\ Calm
<1>1. UNCHANGED <<world, cluster, uploads, grants, active, previews, task, refused, events>>
  BY DEF pstate, memory
<1>2. requests' \in Nat /\ events' \in Nat
  BY <1>1, Counters
<1>3. /\ World' /\ Rows' /\ Grants' /\ UNCHANGED <<release, started>>
      /\ \A s \in Replicas : grants'[s] \subseteq grants[s]
  BY <1>1, <1>2 DEF PInv, World, Rows, Grants, world, cluster
<1>4. QED
  BY <1>1, <1>3, Bystands

\* A policy that is created has an id, and names a chart.
LEMMA CreateOK ==
  ASSUME IInv, NEW rel \in Releases, NEW c \in Charts, NEW on \in BOOLEAN, Create(rel, c, on)
  PROVE  IInv' /\ Calm
<1>1. PICK yes \in BOOLEAN : yes = TRUE
  OBVIOUS
<1> DEFINE row(id) == [id |-> id, chart |-> c, enabled |-> on, due |-> yes, status |-> "idle"]
<1>2. Asks /\ UNCHANGED <<pstate, edit, batch, check>>
  BY DEF Create
<1>3. PICK id \in Fresh : policy' = [policy EXCEPT ![rel] = row(id)]
  BY <1>1, Zenon DEF Create
<1>4. id \in Nat
  BY DEF Fresh, IInv, PInv, World
<1>5. row(id) \in Policy /\ row(id).chart \in Charts
  BY <1>4 DEF Policy
<1> HIDE DEF row
<1>6. Policies'
  BY <1>3, <1>5, PolicyWritten DEF IInv
<1>7. PInv' /\ Calm
  BY <1>2, PackageStays DEF IInv
<1>8. Edits' /\ Batches' /\ Checks'
  BY <1>2 DEF IInv, Edits, Batches, Checks
<1>9. QED
  BY <1>6, <1>7, <1>8 DEF IInv

\* One entry of the saves that run is replaced.
LEMMA EditMoves ==
  ASSUME Edits, NEW r \in Replicas, NEW u \in Admins, NEW e \in Edit, edit' = [edit EXCEPT ![r][u] = e]
  PROVE  Edits'
<1>1. edit[r] \in [Admins -> Edit] /\ edit' = [edit EXCEPT ![r] = [edit[r] EXCEPT ![u] = e]]
  BY DEF Edits
<1>2. QED
  BY <1>1 DEF Edits

\* What a save has read, with its changes, is a row that names a chart.
LEMMA BeginSaveOK ==
  ASSUME IInv, NEW rel \in Releases, NEW r \in Replicas, NEW u \in Admins, NEW c \in Charts, NEW on \in BOOLEAN,
         BeginSave(r, u, rel, c, on)
  PROVE  IInv' /\ Calm
<1>1. PICK yes \in BOOLEAN : yes = TRUE
  OBVIOUS
<1> DEFINE row == [policy[rel] EXCEPT !.chart = c, !.enabled = on, !.due = yes]
           e == [release |-> rel, row |-> row]
<1>2. Asks /\ UNCHANGED <<pstate, policy, batch, check>> /\ edit' = [edit EXCEPT ![r][u] = e]
  BY <1>1, Zenon DEF BeginSave
<1>3. policy[rel] \in Policy
  BY DEF IInv, Policies
<1>4. row \in Policy /\ row.chart = c
  BY <1>3 DEF Policy
<1> HIDE DEF row
<1>5. e \in Edit
  BY <1>4 DEF Edit
<1> HIDE DEF e
<1>6. Edits'
  BY <1>2, <1>5, EditMoves DEF IInv
<1>7. PInv' /\ Calm
  BY <1>2, PackageStays DEF IInv
<1>8. Policies' /\ Batches' /\ Checks'
  BY <1>2 DEF IInv, Policies, Present, Batches, Checks
<1>9. QED
  BY <1>6, <1>7, <1>8 DEF IInv

\* That row is written as it is, whatever the table holds by now.
LEMMA EndSaveOK ==
  ASSUME IInv, NEW r \in Replicas, NEW u \in Admins, EndSave(r, u)
  PROVE  IInv' /\ Calm
<1> DEFINE e == edit[r][u]
<1>1. /\ UNCHANGED <<pstate, requests, batch, check>> /\ e # NoEdit
      /\ policy' = [policy EXCEPT ![e.release] = e.row] /\ edit' = [edit EXCEPT ![r][u] = NoEdit]
  BY DEF EndSave, pvars
<1>2. e \in Edit /\ NoEdit \in Edit
  BY DEF IInv, Edits, Edit
<1>3. e.release \in Releases /\ e.row \in Policy /\ e.row.chart \in Charts
  BY <1>1, <1>2 DEF Edit
<1> HIDE DEF e
<1>4. Policies' /\ Edits'
  BY <1>1, <1>2, <1>3, PolicyWritten, EditMoves DEF IInv
<1>5. PInv' /\ Calm
  BY <1>1, PackageStays DEF IInv
<1>6. Batches' /\ Checks'
  BY <1>1 DEF IInv, Batches, Checks
<1>7. QED
  BY <1>4, <1>5, <1>6 DEF IInv

LEMMA RowOK ==
  ASSUME IInv, NEW rel \in Releases, Delete(rel) \/ BecomesDue(rel)
  PROVE  IInv' /\ Calm
<1>1. UNCHANGED <<pstate, requests, edit, batch, check>> /\ Present(rel)
  BY DEF Delete, BecomesDue, pvars
<1>2. PInv' /\ Calm
  BY <1>1, PackageStays DEF IInv
<1>3. Edits' /\ Batches' /\ Checks'
  BY <1>1 DEF IInv, Edits, Batches, Checks
<1>4. Policies'
  <2>1. CASE Delete(rel)
    BY <2>1, NoPolicyType, PolicyWritten DEF IInv, Delete
  <2>2. CASE BecomesDue(rel)
    <3>1. PICK yes \in BOOLEAN : yes = TRUE
      OBVIOUS
    <3> DEFINE row == [policy[rel] EXCEPT !.due = yes]
    <3>2. policy[rel] \in Policy /\ policy[rel].chart \in Charts
      BY <1>1 DEF IInv, Policies
    <3>3. policy' = [policy EXCEPT ![rel].due = yes]
      BY <2>2, <3>1, Zenon DEF BecomesDue
    <3>4. policy' = [policy EXCEPT ![rel] = row]
      BY <3>3 DEF IInv, Policies
    <3>5. row \in Policy /\ row.chart \in Charts
      BY <3>2 DEF Policy
    <3> HIDE DEF row
    <3>6. QED
      BY <3>4, <3>5, PolicyWritten DEF IInv
  <2>3. QED
    BY <2>1, <2>2
<1>5. QED
  BY <1>2, <1>3, <1>4 DEF IInv

\* What is loaded from a policy names its chart.
LEMMA LoadedType == ASSUME Policies, NEW rel \in Releases, Present(rel) PROVE Loaded(rel) \in Item
BY DEF Policies, Policy, Loaded, Item

LEMMA CheckNowOK ==
  ASSUME IInv, NEW rel \in Releases, NEW r \in Replicas, NEW u \in Admins, CheckNow(r, u, rel)
  PROVE  IInv' /\ Calm
<1>1. UNCHANGED <<pstate, policy, edit, batch>> /\ Start(r, u, Loaded(rel)) /\ Present(rel)
  BY DEF CheckNow
<1>2. PInv' /\ Calm
  BY <1>1, PackageStays DEF IInv, Start
<1>3. Checks'
  <2>1. Loaded(rel) \in Item /\ u \in Actors
    BY <1>1, LoadedType DEF IInv, Actors
  <2>2. QED
    BY <1>1, <2>1, StartOK DEF IInv
<1>4. Policies' /\ Edits' /\ Batches'
  BY <1>1 DEF IInv, Policies, Present, Edits, Batches
<1>5. QED
  BY <1>2, <1>3, <1>4 DEF IInv

LEMMA RunDueOK ==
  ASSUME IInv, NEW r \in Replicas, RunDue(r)
  PROVE  IInv' /\ Calm
<1>1. UNCHANGED <<pstate, requests, policy, edit, check>>
  BY DEF RunDue, pvars
<1>2. PInv' /\ Calm
  BY <1>1, PackageStays DEF IInv
<1>3. Batches'
  <2>1. PICK order \in [1..Cardinality(Due) -> Due] :
          batch' = [batch EXCEPT ![r] = [i \in DOMAIN order |-> Loaded(order[i])]]
    BY DEF RunDue
  <2>2. Cardinality(Due) \in Nat
    <3>1. Due \subseteq Releases /\ IsFiniteSet(Releases)
      BY PackageAssumption DEF Due
    <3>2. QED
      BY <3>1, FS_Subset, FS_CardinalityType
  <2> DEFINE n == Cardinality(Due)  s == [i \in DOMAIN order |-> Loaded(order[i])]
  <2>3. \A rel \in Due : Loaded(rel) \in Item
    BY LoadedType DEF Due, IInv
  <2>4. s \in Seq(Item)
    <3> HIDE DEF n
    <3>1. n \in Nat /\ order \in [1..n -> Due]
      BY <2>1, <2>2 DEF n
    <3>2. s \in [1..n -> Item]
      BY <2>3, <3>1
    <3> HIDE DEF s
    <3>3. QED
      BY <3>1, <3>2
  <2> HIDE DEF s
  <2>5. batch' = [batch EXCEPT ![r] = s]
    BY <2>1 DEF s
  <2>6. QED
    BY <2>4, <2>5 DEF IInv, Batches
<1>4. Policies' /\ Edits' /\ Checks'
  BY <1>1 DEF IInv, Policies, Present, Edits, Checks
<1>5. QED
  BY <1>2, <1>3, <1>4 DEF IInv

LEMMA NextDueOK ==
  ASSUME IInv, NEW r \in Replicas, NextDue(r)
  PROVE  IInv' /\ Calm
<1> DEFINE item == Head(batch[r])
<1>1. /\ UNCHANGED <<pstate, policy, edit>> /\ batch[r] # <<>> /\ Start(r, NoUser, item)
      /\ batch' = [batch EXCEPT ![r] = Tail(@)]
  BY DEF NextDue
<1>2. batch[r] \in Seq(Item)
  BY DEF IInv, Batches
<1>3. item \in Item /\ Tail(batch[r]) \in Seq(Item)
  BY <1>1, <1>2, HeadTailProperties
<1> HIDE DEF item
<1>4. Checks'
  <2>1. NoUser \in Actors
    BY DEF Actors
  <2>2. QED
    BY <1>1, <1>3, <2>1, StartOK DEF IInv
<1>5. Batches'
  BY <1>1, <1>3 DEF IInv, Batches
<1>6. PInv' /\ Calm
  BY <1>1, PackageStays DEF IInv, Start
<1>7. Policies' /\ Edits'
  BY <1>1 DEF IInv, Policies, Present, Edits
<1>8. QED
  BY <1>4, <1>5, <1>6, <1>7 DEF IInv

LEMMA LookOK ==
  ASSUME IInv, NEW r \in Replicas, NEW a \in Actors, Compare(r, a) \/ Inspect(r, a)
  PROVE  IInv' /\ Calm
<1>1. UNCHANGED <<pstate, requests, edit, batch>> /\ check[r][a].pc # "none"
  BY DEF Compare, Inspect, pvars
<1>2. PInv' /\ Calm
  BY <1>1, PackageStays DEF IInv
<1>3. Edits' /\ Batches'
  BY <1>1 DEF IInv, Edits, Batches
<1>4. Policies' /\ Checks'
  <2>1. ASSUME NEW status \in {"failed", "current", "blocked"}, Finish(r, a, status)
        PROVE  Policies' /\ Checks'
    BY <1>1, <2>1, FinishOK DEF IInv
  <2>2. ASSUME NEW pc \in {"inspect", "approve"}, Goto(r, a, pc), policy' = policy
        PROVE  Policies' /\ Checks'
    <3>1. Checks'
      BY <1>1, <2>2, GotoOK DEF IInv, Goto
    <3>2. QED
      BY <2>2, <3>1 DEF IInv, Policies, Present
  <2>3. CASE Compare(r, a)
    BY <2>1, <2>2, <2>3 DEF Compare
  <2>4. CASE Inspect(r, a)
    BY <2>1, <2>2, <2>4 DEF Inspect
  <2>5. QED
    BY <2>3, <2>4
<1>5. QED
  BY <1>2, <1>3, <1>4 DEF IInv

LEMMA ApproveOK ==
  ASSUME IInv, NEW r \in Replicas, NEW a \in Actors, Approve(r, a)
  PROVE  IInv' /\ Calm
<1> DEFINE ch == Upgrading(r, a)
<1>1. /\ UNCHANGED <<world, cluster, uploads, active, task, refused, requests, events, edit, batch>>
      /\ check[r][a].pc = "approve"
  BY DEF Approve
<1>2. ch \in Change /\ a \in Users \cup {NoUser} /\ requests' \in Nat
  BY <1>1, PackageAssumption DEF IInv, PInv, World, Checks, Upgrading, Change, Sources, Actors
<1>3. Edits' /\ Batches'
  BY <1>1 DEF IInv, Edits, Batches
<1>4. CASE /\ IssueGrant(r, a, ch) /\ policy' = policy
           /\ check' = [check EXCEPT ![r][a].pc = "confirm", ![r][a].grant = previews + 1]
  <2>1. PInv' /\ Calm
    <3> HIDE DEF ch
    <3>1. QED
      BY <1>1, <1>2, <1>4, IssueOK DEF IInv
  <2>2. Checks'
    <3>1. previews + 1 \in Nat
      BY DEF IInv, PInv, Tokens
    <3>2. QED
      BY <1>1, <1>4, <3>1, GotoOK DEF IInv
  <2>3. QED
    BY <1>3, <1>4, <2>1, <2>2 DEF IInv, Policies, Present
<1>5. CASE Finish(r, a, "blocked") /\ UNCHANGED <<previews, grants>>
  <2>1. Policies' /\ Checks'
    BY <1>1, <1>5, FinishOK DEF IInv
  <2>2. UNCHANGED pstate /\ requests' = requests
    BY <1>1, <1>5 DEF pstate, memory
  <2>3. PInv' /\ Calm
    BY <2>2, PackageStays DEF IInv
  <2>4. QED
    BY <1>3, <2>1, <2>3 DEF IInv
<1>6. QED
  BY <1>4, <1>5 DEF Approve

LEMMA ApplyOK ==
  ASSUME IInv, NEW r \in Replicas, NEW a \in Actors, Apply(r, a)
  PROVE  IInv' /\ Calm
<1> DEFINE ch == Upgrading(r, a)
           granted == {g \in grants[r] : g.token = check[r][a].grant}
<1>1. /\ UNCHANGED <<world, cluster, uploads, active, previews, refused, requests, events, edit, batch>>
      /\ check[r][a].pc = "confirm" /\ grants' = [grants EXCEPT ![r] = @ \ granted]
  BY DEF Apply
<1>2. Grants' /\ \A s \in Replicas : grants'[s] \subseteq grants[s]
  BY <1>1, FewerGrants DEF IInv
<1>3. World' /\ Rows' /\ Edits' /\ Batches' /\ UNCHANGED <<release, started>>
  BY <1>1 DEF IInv, PInv, World, Rows, Edits, Batches, world, cluster
<1>4. ASSUME NEW g \in granted, Matches(g, a, ch), Goto(r, a, "wait"), policy' = policy,
             Add(InlineChange(r, a, ch, g))
      PROVE  IInv' /\ Calm
  <2> DEFINE t == NewTask(ch.op, a, ch.release, ch.chart, 0, g)
  <2>1. ch \in Change /\ ch.op = "upgrade" /\ a \in Users \cup {NoUser} /\ g \in grants[r]
    BY <1>1, PackageAssumption DEF IInv, Checks, Upgrading, Change, Sources, Actors
  <2>2. PICK yes \in BOOLEAN : yes = TRUE
    OBVIOUS
  <2> DEFINE x == [t EXCEPT !.replica = r, !.inline = yes]
  <2>3. Add(x)
    BY <1>4, <2>1, <2>2, Zenon DEF InlineChange
  <2>4. GoodTask(t) /\ t.pc = "queued" /\ t.grant = g /\ t.attempt = 0
    <3> HIDE DEF ch, granted
    <3>1. QED
      BY <1>4, <2>1, NewGranted DEF IInv
  <2> HIDE DEF t
  <2>0. x = [t EXCEPT !.replica = r, !.inline = yes]
    OBVIOUS
  <2> HIDE DEF x
  <2>5. GoodTask(x) /\ x.pc = "queued" /\ x.grant = g /\ x.attempt = 0
    <3> HIDE DEF ch, granted
    <3>1. t \in Task
      BY <2>4 DEF GoodTask
    <3>2. /\ x \in Task /\ x.op = t.op /\ x.user = t.user /\ x.release = t.release /\ x.chart = t.chart
          /\ x.revision = t.revision /\ x.grant = t.grant /\ x.loaded = t.loaded /\ x.pc = t.pc
          /\ x.attempt = t.attempt
      BY <2>0, <3>1 DEF Task
    <3>3. QED
      BY <2>4, <3>2 DEF GoodTask, Holds
  <2>6. g \notin grants'[r]
    BY <1>1 DEF IInv, PInv, Grants
  <2>7. PInv' /\ Calm
    <3>1. UNCHANGED <<release, started, refused, previews, active>>
      BY <1>1, <1>3
    <3> HIDE DEF ch, granted
    <3>2. QED
      BY <1>2, <1>3, <2>1, <2>3, <2>5, <2>6, <3>1, AddedOK DEF IInv
  <2>8. Checks'
    BY <1>1, <1>4, GotoOK DEF IInv, Goto
  <2>9. QED
    BY <1>3, <1>4, <2>7, <2>8 DEF IInv, Policies, Present
<1>5. CASE Finish(r, a, "failed") /\ UNCHANGED task
  <2>1. Policies' /\ Checks'
    BY <1>1, <1>5, FinishOK DEF IInv
  <2>2. PInv' /\ Calm
    BY <1>1, <1>2, <1>3, <1>5, Bystands DEF IInv
  <2>3. QED
    BY <1>3, <2>1, <2>2 DEF IInv
<1>6. QED
  BY <1>4, <1>5 DEF Apply

LEMMA ReportOK ==
  ASSUME IInv, NEW r \in Replicas, NEW a \in Actors, Report(r, a)
  PROVE  IInv' /\ Calm
<1>1. UNCHANGED <<world, cluster, memory, refused, requests, events, edit, batch>> /\ check[r][a].pc = "wait"
  BY DEF Report
<1>2. PICK i \in Open : task' = [task EXCEPT ![i] = NoTask]
                        /\ Finish(r, a, IF task[i].pc = "succeeded" THEN "upgraded" ELSE "failed")
  BY DEF Report
<1>3. Policies' /\ Checks'
  <2> DEFINE status == IF task[i].pc = "succeeded" THEN "upgraded" ELSE "failed"
  <2>1. status \in {"failed", "current", "blocked", "upgraded"} /\ Finish(r, a, status)
    BY <1>2
  <2> HIDE DEF status
  <2>2. QED
    BY <1>1, <2>1, FinishOK DEF IInv
<1>4. PInv' /\ Calm
  <2>1. Rows' /\ UNCHANGED <<world, release, started, memory, refused>> /\ requests' \in Nat /\ events' \in Nat
    BY <1>1 DEF IInv, PInv, World, Rows, cluster
  <2>2. Continues(i, NoTask)
    BY DEF Continues
  <2>3. QED
    BY <1>2, <2>1, <2>2, NoTaskSteady, OutsideLock DEF IInv
<1>5. Edits' /\ Batches'
  BY <1>1 DEF IInv, Edits, Batches
<1>6. QED
  BY <1>3, <1>4, <1>5 DEF IInv

LEMMA ReplicaDiesOK ==
  ASSUME IInv, NEW r \in Replicas, Crash(r)
  PROVE  IInv' /\ Calm
<1>1. PInv' /\ Calm
  BY CrashOK DEF IInv, Crash
<1>2. Policies'
  BY DEF IInv, Crash, Policies, Present
<1>3. Edits' /\ Batches'
  <2>1. NoEdit \in Edit
    BY DEF Edit
  <2>2. QED
    BY <2>1 DEF IInv, Crash, Edits, Batches
<1>4. Checks'
  <2>1. check' = [check EXCEPT ![r] = [a \in Actors |-> NoCheck]]
    BY DEF Crash
  <2>2. check' \in [Replicas -> [Actors -> Check]]
    BY <2>1, NoCheckType DEF IInv, Checks
  <2>3. \A s \in Replicas, a \in Actors : check'[s][a] = NoCheck \/ check'[s][a] = check[s][a]
    BY <2>1 DEF IInv, Checks
  <2>4. QED
    BY <2>2, <2>3, NoCheckType DEF IInv, Checks
<1>5. QED
  BY <1>1, <1>2, <1>3, <1>4 DEF IInv

-----------------------------------------------------------------------------
(* The whole program.                                                      *)

LEMMA InitOK == Init => IInv
<1> SUFFICES ASSUME Init PROVE IInv
  OBVIOUS
<1>1. PInit /\ Open = {}
  <2>1. PInit
    BY DEF Init
  <2>2. task = [i \in Slots |-> NoTask]
    BY <2>1 DEF PInit
  <2>3. QED
    BY <2>1, <2>2 DEF Open, Free
<1>2. World /\ Tokens /\ Locks /\ Fits
  BY <1>1 DEF PInit, World, Tokens, Locks, Fits
<1>3. Tasks
  BY <1>1 DEF PInit, Tasks
<1>4. Grants
  <2>1. IsFiniteSet({}) /\ Cardinality({}) = 0 /\ MaxGrants \in Nat
    BY FS_EmptySet, PackageAssumption
  <2>2. QED
    BY <1>1, <2>1 DEF PInit, Grants
<1>5. Rows
  <2>1. ASSUME NEW c \in Charts, NEW S \in SUBSET Sources PROVE Installed(c, S) \in Digest
    BY DEF Installed, Digest, Contents, Sources
  <2>2. Absent \in Row /\ Absent.status = "absent" /\ Absent.history = <<>>
    BY DEF Absent, Row
  <2>3. ASSUME NEW c \in Charts, NEW u \in Uploaders
        PROVE  Upgraded(c, u) \in Row /\ Upgraded(c, u).status # "absent" /\ Upgraded(c, u).history # <<>>
    <3> DEFINE d == Installed(c, {c})  e == Installed(c, {c, u})
    <3>1. d \in Digest /\ e \in Digest
      BY <2>1, PackageAssumption DEF Sources
    <3>2. Upgraded(c, u) = [status |-> "deployed", history |-> <<d, e>>]
      BY DEF Upgraded
    <3> HIDE DEF d, e
    <3>3. <<d, e>> \in Seq(Digest) /\ <<d, e>> # <<>>
      BY <3>1
    <3>4. QED
      BY <3>2, <3>3 DEF Row
  <2>4. release \in [Releases -> {Absent} \cup {Upgraded(c, u) : c \in Charts, u \in Uploaders}]
    BY <1>1 DEF PInit
  <2>5. \A rel \in Releases : release[rel] = Absent \/ \E c \in Charts, u \in Uploaders : release[rel] = Upgraded(c, u)
    BY <2>4
  <2>6. release \in [Releases -> Row]
    BY <2>2, <2>3, <2>4
  <2>7. \A rel \in Releases : release[rel].status = "absent" <=> release[rel].history = <<>>
    BY <2>2, <2>3, <2>5
  <2>8. source \in [Releases -> Charts \cup {None}]
    BY <1>1 DEF PInit
  <2>9. QED
    BY <2>6, <2>7, <2>8 DEF Rows
<1>6. Policies /\ Edits
  <2>1. policy = [rel \in Releases |-> NoPolicy] /\ edit = [r \in Replicas |-> [u \in Admins |-> NoEdit]]
    BY DEF Init
  <2>2. NoEdit \in Edit
    BY DEF Edit
  <2>3. QED
    BY <2>1, <2>2, NoPolicyType DEF Policies, Present, Edits
<1>7. Batches /\ Checks
  BY NoCheckType DEF Init, Batches, Checks
<1>8. QED
  BY <1>2, <1>3, <1>4, <1>5, <1>6, <1>7 DEF IInv, PInv

\* One step: the invariant, and what its theorems say of Helm's starts.
Started ==
  \/ Calm
  \/ \E i \in Open : HelmStarts(i) /\ \A j \in Open : j # i => task'[j] = task[j]

LEMMA NextOK == IInv /\ [Next]_vars => IInv' /\ Started
<1> SUFFICES ASSUME IInv, [Next]_vars PROVE IInv' /\ Started
  OBVIOUS
<1>1. CASE (Execute \/ Requests \/ Environment) /\ UNCHANGED avars
  <2>1. PInv' /\ Started
    BY <1>1, PackageStep DEF IInv, Started
  <2>2. UNCHANGED <<policy, edit, batch, check>>
    BY <1>1 DEF avars
  <2>3. QED
    BY <2>1, <2>2 DEF IInv, Policies, Present, Edits, Batches, Checks
<1>2. ASSUME NEW rel \in Releases, NEW c \in Charts, NEW on \in BOOLEAN,
             Create(rel, c, on) \/ \E r \in Replicas, u \in Admins : BeginSave(r, u, rel, c, on)
      PROVE  IInv' /\ Started
  BY <1>2, CreateOK, BeginSaveOK DEF Started
<1>3. ASSUME NEW rel \in Releases,
             Delete(rel) \/ BecomesDue(rel) \/ \E r \in Replicas, u \in Admins : CheckNow(r, u, rel)
      PROVE  IInv' /\ Started
  BY <1>3, RowOK, CheckNowOK DEF Started
<1>4. ASSUME NEW r \in Replicas, Scheduler(r) \/ Crash(r) \/ \E u \in Admins : EndSave(r, u)
      PROVE  IInv' /\ Started
  BY <1>4, RunDueOK, NextDueOK, ReplicaDiesOK, EndSaveOK DEF Scheduler, Started
<1>5. ASSUME NEW r \in Replicas, NEW a \in Actors, RunCheck(r, a)
      PROVE  IInv' /\ Started
  BY <1>5, LookOK, ApproveOK, ApplyOK, ReportOK DEF RunCheck, Started
<1>6. CASE UNCHANGED vars
  <2>1. UNCHANGED <<pstate, requests, policy, edit, batch, check>>
    BY <1>6 DEF vars, pvars, avars
  <2>2. PInv' /\ Calm
    BY <2>1, PackageStays DEF IInv
  <2>3. QED
    BY <2>1, <2>2 DEF IInv, Policies, Present, Edits, Batches, Checks, Started
<1>7. QED
  BY <1>1, <1>2, <1>3, <1>4, <1>5, <1>6 DEF Next

-----------------------------------------------------------------------------
(* The theorems.                                                           *)

\* The inductive invariant, which every step of every replica preserves.
THEOREM Invariance == Spec => []IInv
BY InitOK, NextOK, PTL DEF Spec

\* Helm runs for at most one execution of a release at a time in one process
\* (Service.mutate's Service.active).
OneChangeAtATime == \A i, j \in Open :
  /\ task[i].pc = "helm" /\ task[j].pc = "helm"
  /\ task[i].replica = task[j].replica /\ task[i].release = task[j].release
  => i = j

\* Service.mutate serialises what one replica does to a release, whatever is
\* queued, retried, or applied by the automatic upgrades at the same time.
THEOREM OneAtATime == Spec => []OneChangeAtATime
<1>1. IInv => OneChangeAtATime
  BY DEF IInv, PInv, Locks, Holds, OneChangeAtATime
<1>2. QED
  BY <1>1, Invariance, PTL

\* The states of releases, their tracked sources, what is in a replica's
\* memory, and that absent releases, and no others, have no revisions.
THEOREM TypeCorrect == Spec => []TypeOK
<1>1. IInv => TypeOK
  BY DEF IInv, PInv, World, Rows, Row, Grants, Locks, TypeOK
<1>2. QED
  BY <1>1, Invariance, PTL

\* PrepareChange deletes the grant, and each retry of a row that failed is a
\* copy of its own: Helm is started with a confirmation at most once for itself
\* and once for each retry asked for, whatever else is queued or executed.
THEOREM ConfirmedOnce == Spec => TokenUsedOnce
<1>1. ASSUME IInv, NEW i \in Open, HelmIsStarted(i) PROVE <<task[i].grant.token, task[i].attempt>> \notin started
  BY <1>1 DEF IInv, PInv, Tokens, Waits, Turn, HelmIsStarted
<1>2. IInv => \A i \in Open : HelmIsStarted(i) => <<task[i].grant.token, task[i].attempt>> \notin started
  BY <1>1
<1>3. IInv /\ [Next]_vars
      => [\A i \in Open : HelmIsStarted(i) => <<task[i].grant.token, task[i].attempt>> \notin started]_vars
  BY <1>2
<1>4. QED
  BY <1>3, Invariance, PTL DEF Spec, TokenUsedOnce

\* What Helm records for a change that has a preview.
LEMMA Recorded ==
  ASSUME PInv, NEW i \in Open, HelmStarts(i), HelmIsStarted(i), task[i].grant # NoGrant
  PROVE  Current(task[i].release)' = Render(task[i], task[i].loaded)
<1> DEFINE t == task[i]  rel == t.release  h == release[rel].history  d == Render(t, t.loaded)
           new == CASE t.op = "install"  -> <<d>>
                    [] t.op = "upgrade"  -> Append(h, d)
                    [] t.op = "rollback" -> Append(h, h[IF t.revision <= Len(h) THEN t.revision ELSE 1])
                    [] t.op = "remove"   -> h
<1>1. /\ i \in Slots /\ GoodTask(t) /\ t \in Task /\ rel \in Releases /\ t.op \in {"install", "upgrade"}
      /\ t.pc = "verified" /\ task'[i].pc = "helm" /\ task[i].pc # "returned"
  BY DEF HelmIsStarted, PInv, Tasks, GoodTask, Task, Open
<1>2. ~Return(i, Refusal(t))
  <2>1. Refusal(t) \in Ended \cup {"conflict"}
    BY DEF Refusal, Ended
  <2>2. ASSUME Return(i, Refusal(t)) PROVE task'[i].pc = "returned"
    BY <1>1, <2>1, <2>2 DEF Return, PInv, Tasks, Task
  <2>3. QED
    BY <1>1, <2>2
<1>3. /\ HelmAccepts(t.op, rel) /\ Move(i, "helm")
      /\ release' = [release EXCEPT ![rel] = [status |-> "pending", history |-> new]]
  BY <1>2, Zenon DEF HelmStarts
<1>4. h \in Seq(Digest) /\ d \in Digest
  <2>1. h \in Seq(Digest)
    BY <1>1 DEF PInv, Rows, Row
  <2>2. t.loaded \in Contents /\ t.chart \in Sources
    BY <1>1 DEF GoodTask
  <2>3. QED
    BY <1>1, <1>3, <2>1, <2>2, RenderType DEF PInv
<1>5. new = <<d>> \/ new = Append(h, d)
  BY <1>1, Zenon
<1>6. task'[i].release = rel
  BY <1>1, <1>3 DEF Move, PInv, Tasks, Task
<1>7. release'[rel].history = new
  <2> HIDE DEF new
  <2>1. QED
    BY <1>1, <1>3 DEF PInv, Rows
<1> HIDE DEF d, h, new
<1>8. new[Len(new)] = d
  <2>1. CASE new = <<d>>
    BY <2>1
  <2>2. CASE new = Append(h, d)
    <3>1. Len(h) \in Nat
      BY <1>4, LenProperties
    <3>2. QED
      BY <1>4, <2>2, AppendProperties
  <2>3. QED
    BY <1>5, <2>1, <2>2
<1>9. Current(task[i].release)' = release'[rel].history[Len(release'[rel].history)]
  BY <1>6 DEF Current
<1>10. QED
  BY <1>7, <1>8, <1>9 DEF d

\* With one replica, whose lock keeps what changeDigest compared as it was, Helm
\* applies what the preview showed; what it did not show, values that end in
\* Secrets only, may differ. (Two replicas do not share Service.active.)
THEOREM AppliedAsPreviewed ==
  ASSUME \A r, s \in Replicas : r = s
  PROVE  Spec => ExecutedAsPreviewed
<1> DEFINE As(i) == LET t == task[i] IN
             /\ Shown(Current(t.release)') = t.grant.digest
             /\ t.grant.user = t.user
             /\ t.grant.change = [op |-> t.op, release |-> t.release, chart |-> t.chart]
<1>1. ASSUME IInv, [Next]_vars, NEW i \in Open, HelmIsStarted(i), task[i].grant # NoGrant PROVE As(i)
  <2>1. ~Calm /\ Started
    BY <1>1, NextOK DEF Calm, HelmIsStarted
  <2>2. PICK j \in Open : HelmStarts(j) /\ \A k \in Open : k # j => task'[k] = task[k]
    BY <2>1 DEF Started
  <2>3. i = j
    BY <1>1, <2>2 DEF HelmIsStarted
  <2>4. Current(task[i].release)' = Render(task[i], task[i].loaded)
    BY <1>1, <2>2, <2>3, Recorded DEF IInv
  <2>5. Shown(Render(task[i], task[i].loaded)) = task[i].grant.digest
    BY <1>1 DEF IInv, PInv, Fits, OneReplica, Steady, HelmIsStarted
  <2>6. /\ task[i].grant.user = task[i].user
        /\ task[i].grant.change = [op |-> task[i].op, release |-> task[i].release, chart |-> task[i].chart]
    BY <1>1 DEF IInv, PInv, Tasks, GoodTask
  <2>7. QED
    BY <2>4, <2>5, <2>6
<1>2. IInv /\ [Next]_vars => [\A i \in Open : (HelmIsStarted(i) /\ task[i].grant # NoGrant) => As(i)]_vars
  <2> HIDE DEF As
  <2>1. QED
    BY <1>1
<1>3. QED
  BY <1>2, Invariance, PTL DEF Spec, ExecutedAsPreviewed

\* CanExecute is asked for the preview only, and that is enough: whatever the
\* worker loads has the content that was previewed (changeDigest), and only an
\* administrator, or the automatic upgrade, gets a grant for a critical one.
THEOREM CriticalWasAllowed == Spec => CriticalNeedsAdmin
<1> DEFINE P == \A i \in Open : (HelmIsStarted(i) /\ task[i].loaded \in Critical) => IsAdmin(task[i].user)
<1>1. ASSUME IInv, NEW i \in Open, HelmIsStarted(i), task[i].loaded \in Critical
      PROVE  IsAdmin(task[i].user)
  <2> DEFINE t == task[i]
  <2>1. GoodTask(t) /\ t \in Task /\ t.pc = "verified"
    BY <1>1 DEF IInv, PInv, Tasks, GoodTask, HelmIsStarted
  <2>2. t.op \in {"install", "upgrade"}
    BY <1>1, <2>1, PackageAssumption DEF GoodTask
  <2>3. t.grant \in Grant /\ t.grant.user = t.user /\ t.loaded = t.grant.digest.content
    BY <2>1, <2>2 DEF GoodTask, Task
  <2>4. QED
    BY <1>1, <2>3 DEF Grant
<1>2. IInv => P
  BY <1>1
<1> HIDE DEF P
<1>3. IInv /\ [Next]_vars => [P]_vars
  BY <1>2
<1>4. Spec => [][P]_vars
  BY <1>3, Invariance, PTL DEF Spec
<1>5. QED
  BY <1>4 DEF P, CriticalNeedsAdmin

-----------------------------------------------------------------------------
(* Every lock has an owner.                                                *)

\* The execution in slot i holds the lock of rel at replica r.
Owns(i, r, rel) == Holds(task[i]) /\ task[i].replica = r /\ task[i].release = rel
LockHasOwner == \A r \in Replicas : \A rel \in active[r] : \E i \in Open : Owns(i, r, rel)

\* Whoever holds a lock goes on holding it.
OwnersStay == \A i \in Open : Holds(task[i]) =>
  /\ i \in Open' /\ Holds(task'[i])
  /\ task'[i].replica = task[i].replica /\ task'[i].release = task[i].release

LEMMA StillOwned == LockHasOwner /\ OwnersStay /\ active' = active => LockHasOwner'
BY DEF LockHasOwner, OwnersStay, Owns

LEMMA NobodyMoves == task' = task => OwnersStay
BY DEF OwnersStay, Open, Free

\* An execution is added.
LEMMA AddedOwners ==
  ASSUME Tasks, NEW t, Add(t)
  PROVE  OwnersStay
<1>1. PICK i \in Free : task' = [task EXCEPT ![i] = t]
  BY DEF Add
<1>2. \A j \in Open : j \in Slots /\ task[j] # NoTask /\ task'[j] = task[j]
  BY <1>1 DEF Open, Free, Tasks
<1>3. QED
  BY <1>2 DEF OwnersStay, Open, Free

\* One execution moves: it had no lock, or it keeps the one it has.
LEMMA MovedOwners ==
  ASSUME Tasks, NEW i \in Open, NEW x, task' = [task EXCEPT ![i] = x],
         Holds(task[i]) => /\ Holds(x) /\ x.replica = task[i].replica /\ x.release = task[i].release
  PROVE  OwnersStay
<1>1. i \in Slots /\ task'[i] = x /\ \A j \in Slots : j # i => task'[j] = task[j]
  BY DEF Tasks, Open
<1>2. Holds(x) => x # NoTask
  BY NoTaskSteady
<1>3. QED
  BY <1>1, <1>2 DEF OwnersStay, Open, Free

\* Verify and Helm keep the lock; the step after mutate has none.
LEMMA WorkOwners ==
  ASSUME PInv, NEW i \in Open,
         \/ Verify(i) \/ HelmStarts(i) \/ (\E ok \in BOOLEAN : HelmEnds(i, ok) \/ SaveSource(i, ok))
  PROVE  OwnersStay /\ active' = active
<1> DEFINE t == task[i]
<1>1. i \in Slots /\ t \in Task /\ GoodTask(t)
  BY DEF PInv, Tasks, Open, GoodTask
<1>2. active' = active
  BY DEF Verify, HelmStarts, HelmEnds, SaveSource, memory
<1>3. ASSUME NEW outcome \in Ended \cup {"conflict"}, Return(i, outcome) PROVE OwnersStay
  <2> DEFINE x == [t EXCEPT !.pc = "returned", !.outcome = outcome]
  <2>1. task' = [task EXCEPT ![i] = x]
    BY <1>1, <1>3 DEF Return, PInv, Tasks
  <2>2. x.pc = "returned" /\ x.replica = t.replica /\ x.release = t.release
    BY <1>1 DEF Task
  <2> HIDE DEF x
  <2>3. QED
    BY <2>1, <2>2, MovedOwners DEF PInv, Holds
<1>4. Refusal(t) \in Ended \cup {"conflict"} /\ "failed" \in Ended /\ "succeeded" \in Ended
  BY DEF Refusal, Ended
<1>5. CASE Verify(i)
  <2>1. CASE Return(i, "failed") \/ Return(i, Refusal(t))
    BY <1>2, <1>3, <1>4, <2>1
  <2>2. CASE task' = [task EXCEPT ![i].pc = "verified", ![i].loaded = Served(t.chart)]
    <3> DEFINE x == [t EXCEPT !.pc = "verified", !.loaded = Served(t.chart)]
    <3>1. task' = [task EXCEPT ![i] = x]
      BY <1>1, <2>2 DEF PInv, Tasks
    <3>2. x.pc = "verified" /\ x.replica = t.replica /\ x.release = t.release
      BY <1>1 DEF Task
    <3> HIDE DEF x
    <3>3. QED
      BY <1>2, <3>1, <3>2, MovedOwners DEF PInv, Holds
  <2>3. QED
    BY <1>5, <2>1, <2>2 DEF Verify
<1>6. CASE HelmStarts(i)
  <2>1. CASE Move(i, "helm")
    <3> DEFINE x == [t EXCEPT !.pc = "helm"]
    <3>1. task' = [task EXCEPT ![i] = x]
      BY <1>1, <2>1 DEF Move, PInv, Tasks
    <3>2. x.pc = "helm" /\ x.replica = t.replica /\ x.release = t.release
      BY <1>1 DEF Task
    <3> HIDE DEF x
    <3>3. QED
      BY <1>2, <3>1, <3>2, MovedOwners DEF PInv, Holds
  <2>2. QED
    BY <1>2, <1>3, <1>4, <1>6, <2>1, Zenon DEF HelmStarts
<1>7. ASSUME NEW ok \in BOOLEAN, HelmEnds(i, ok) PROVE OwnersStay
  <2>1. Return(i, "succeeded") \/ Return(i, "failed")
    BY <1>7, Zenon DEF HelmEnds
  <2>2. QED
    BY <1>3, <1>4, <2>1
<1>8. ASSUME NEW pc \in {"source"} \cup Ended, ~Holds(t), Ends(i, pc) PROVE OwnersStay
  <2>1. \E x : task' = [task EXCEPT ![i] = x]
    BY <1>8 DEF Ends
  <2>2. QED
    BY <1>8, <2>1, MovedOwners DEF PInv
<1>9. ASSUME NEW ok \in BOOLEAN, SaveSource(i, ok) PROVE OwnersStay
  BY <1>4, <1>8, <1>9 DEF SaveSource, Holds
<1>10. QED
  BY <1>2, <1>5, <1>6, <1>7, <1>9

\* The lock is taken by the execution that begins.
LEMMA BeginOwners ==
  ASSUME PInv, LockHasOwner, NEW r \in Replicas, NEW i \in Open, Begin(r, i)
  PROVE  LockHasOwner'
<1> DEFINE t == task[i]
<1>1. i \in Slots /\ t \in Task /\ GoodTask(t) /\ ~Holds(t)
  BY DEF PInv, Tasks, Open, GoodTask, Begin, Holds
<1>2. CASE active' = active /\ (Ends(i, "failed") \/ Refuse(i))
  <2>1. \E x : task' = [task EXCEPT ![i] = x]
    BY <1>2 DEF Ends, Refuse
  <2>2. OwnersStay
    BY <1>1, <2>1, MovedOwners DEF PInv
  <2>3. QED
    BY <1>2, <2>2, StillOwned
<1>3. ASSUME NEW p \in {"locked", "verified"},
             task' = [task EXCEPT ![i].pc = p, ![i].replica = r],
             active' = [active EXCEPT ![r] = @ \cup {t.release}]
      PROVE  LockHasOwner'
  <2> DEFINE x == [t EXCEPT !.pc = p, !.replica = r]
  <2>1. task' = [task EXCEPT ![i] = x]
    BY <1>1, <1>3 DEF PInv, Tasks
  <2>2. x.pc = p /\ x.replica = r /\ x.release = t.release
    BY <1>1 DEF Task
  <2> HIDE DEF x
  <2>3. OwnersStay
    BY <1>1, <2>1, MovedOwners DEF PInv
  <2>4. task'[i] = x /\ Holds(x) /\ i \in Open'
    <3>1. task'[i] = x /\ Holds(x)
      BY <1>1, <2>1, <2>2 DEF PInv, Tasks, Holds
    <3>2. QED
      BY <1>1, <3>1, NoTaskSteady DEF Open, Free
  <2>5. ASSUME NEW s \in Replicas, NEW rel \in active'[s]
        PROVE  rel \in active[s] \/ (s = r /\ rel = t.release)
    BY <1>3, <2>5 DEF PInv, Locks
  <2>6. QED
    BY <2>2, <2>3, <2>4, <2>5 DEF LockHasOwner, OwnersStay, Owns
<1>4. QED
  <2>1. CASE t.op \in {"install", "upgrade"}
    BY <1>2, <1>3, <2>1 DEF Begin
  <2>2. CASE t.op \notin {"install", "upgrade"}
    BY <1>2, <1>3, <2>2 DEF Begin
  <2>3. QED
    BY <2>1, <2>2

\* The deferred unlock frees what the execution owns, whatever the outcome.
LEMMA UnlockOwners ==
  ASSUME PInv, LockHasOwner, NEW i \in Open, Unlock(i)
  PROVE  LockHasOwner'
<1> DEFINE t == task[i]
<1>1. i \in Slots /\ t \in Task /\ t.replica \in Replicas
  BY DEF PInv, Tasks, Open, GoodTask, Unlock, Holds
<1>2. active' = [active EXCEPT ![t.replica] = @ \ {t.release}]
  BY DEF Unlock, Unlocked
<1>3. \A j \in Slots : j # i => task'[j] = task[j]
  <2>1. \E x : task' = [task EXCEPT ![i] = x]
    <3>1. Move(i, "source") \/ Refuse(i) \/ Ends(i, t.outcome)
      BY Zenon DEF Unlock
    <3>2. QED
      BY <1>1, <3>1 DEF Ends, Refuse, Move, PInv, Tasks
  <2>2. QED
    BY <2>1 DEF PInv, Tasks
<1>4. ASSUME NEW s \in Replicas, NEW rel \in active'[s] PROVE \E j \in Open' : Owns(j, s, rel)'
  <2>1. rel \in active[s] /\ ~(s = t.replica /\ rel = t.release)
    BY <1>1, <1>2, <1>4 DEF PInv, Locks
  <2>2. PICK j \in Open : Owns(j, s, rel)
    BY <2>1 DEF LockHasOwner
  <2>3. j # i /\ j \in Slots /\ task[j] # NoTask
    BY <2>1, <2>2 DEF Owns, Open, Free
  <2>4. j \in Open' /\ task'[j] = task[j]
    BY <1>3, <2>3 DEF Open, Free
  <2>5. QED
    BY <2>2, <2>4 DEF Owns
<1>5. QED
  BY <1>4 DEF LockHasOwner

\* A replica that dies loses its locks with their owners, and no others.
LEMMA CrashOwners ==
  ASSUME PInv, LockHasOwner, NEW r \in Replicas, CrashEffect(r)
  PROVE  LockHasOwner'
<1>1. /\ active' = [active EXCEPT ![r] = {}]
      /\ task' = [i \in Slots |-> IF i \in Open /\ task[i].replica = r THEN NoTask ELSE task[i]]
  BY DEF CrashEffect
<1>2. ASSUME NEW s \in Replicas, NEW rel \in active'[s] PROVE \E j \in Open' : Owns(j, s, rel)'
  <2>1. s # r /\ rel \in active[s]
    BY <1>1, <1>2 DEF PInv, Locks
  <2>2. PICK j \in Open : Owns(j, s, rel)
    BY <2>1 DEF LockHasOwner
  <2>3. j \in Slots /\ task[j] # NoTask /\ task'[j] = task[j]
    BY <1>1, <2>1, <2>2 DEF Owns, Open, Free
  <2>4. j \in Open'
    BY <2>3 DEF Open, Free
  <2>5. QED
    BY <2>2, <2>3, <2>4 DEF Owns
<1>3. QED
  BY <1>2 DEF LockHasOwner

LEMMA OwnersStep == IInv /\ LockHasOwner /\ [Next]_vars => LockHasOwner'
<1> SUFFICES ASSUME IInv, LockHasOwner, [Next]_vars PROVE LockHasOwner'
  OBVIOUS
<1>0. PInv /\ Tasks
  BY DEF IInv, PInv
<1>1. ASSUME task' = task, active' = active PROVE LockHasOwner'
  BY <1>1, NobodyMoves, StillOwned
<1>2. ASSUME NEW t, Add(t), active' = active PROVE LockHasOwner'
  BY <1>0, <1>2, AddedOwners, StillOwned
<1>3. CASE Execute
  BY <1>0, <1>3, BeginOwners, WorkOwners, UnlockOwners, StillOwned DEF Execute
<1>4. CASE Requests
  <2>1. ASSUME NEW r \in Replicas, NEW u \in Users,
               \/ Upload(r, u) \/ UploadExpires(r, u)
               \/ \E ch \in Change : Preview(r, u, ch)
        PROVE  LockHasOwner'
    BY <1>1, <2>1 DEF Upload, UploadExpires, Preview
  <2>2. ASSUME NEW r \in Replicas, NEW u \in Users, NEW ch \in Change, NEW g \in grants[r], Confirm(r, u, g, ch)
        PROVE  LockHasOwner'
    BY <1>1, <1>2, <2>2 DEF Confirm, Submit
  <2>3. ASSUME NEW u \in Users, NEW rel \in Releases,
               \/ \E op \in {"rollback", "remove"}, k \in 0..1 : QueueTask(u, op, rel, k)
               \/ \E s \in Charts : CheckUpgrade(u, rel, s)
        PROVE  LockHasOwner'
    BY <1>1, <1>2, <2>3 DEF QueueTask, CheckUpgrade, Submit, memory
  <2>4. ASSUME NEW y \in refused, Retry(y) PROVE LockHasOwner'
    BY <1>2, <2>4 DEF Retry, Submit
  <2>5. QED
    BY <1>4, <2>1, <2>2, <2>3, <2>4 DEF Requests
<1>5. CASE Environment
  BY <1>1, <1>5 DEF Environment, Publish, Revoke, PreviewExpires, memory
<1>6. ASSUME NEW rel \in Releases,
             \/ \E c \in Charts, on \in BOOLEAN :
                  Create(rel, c, on) \/ \E r \in Replicas, u \in Admins : BeginSave(r, u, rel, c, on)
             \/ Delete(rel) \/ BecomesDue(rel)
             \/ \E r \in Replicas, u \in Admins : CheckNow(r, u, rel)
      PROVE  LockHasOwner'
  BY <1>1, <1>6 DEF Create, BeginSave, Delete, BecomesDue, CheckNow, pvars, pstate, memory
<1>7. ASSUME NEW r \in Replicas, Scheduler(r) \/ \E u \in Admins : EndSave(r, u) PROVE LockHasOwner'
  BY <1>1, <1>7 DEF Scheduler, RunDue, NextDue, EndSave, pvars, pstate, memory
<1>8. ASSUME NEW r \in Replicas, Crash(r) PROVE LockHasOwner'
  BY <1>0, <1>8, CrashOwners DEF Crash
<1>9. ASSUME NEW r \in Replicas, NEW a \in Actors, RunCheck(r, a) PROVE LockHasOwner'
  <2>1. CASE Compare(r, a) \/ Inspect(r, a) \/ Approve(r, a)
    BY <1>1, <2>1 DEF Compare, Inspect, Approve, pvars, pstate, memory
  <2>2. CASE Apply(r, a)
    BY <1>1, <1>2, <2>2, Zenon DEF Apply
  <2>3. CASE Report(r, a)
    <3>1. PICK i \in Open : task[i].pc \in Ended /\ task' = [task EXCEPT ![i] = NoTask]
      BY <2>3 DEF Report
    <3>2. ~Holds(task[i]) /\ active' = active
      BY <2>3, <3>1 DEF Holds, Ended, Report, memory
    <3>3. OwnersStay
      BY <1>0, <3>1, <3>2, MovedOwners
    <3>4. QED
      BY <3>2, <3>3, StillOwned
  <2>4. QED
    BY <1>9, <2>1, <2>2, <2>3 DEF RunCheck
<1>10. CASE UNCHANGED vars
  BY <1>1, <1>10 DEF vars, pvars, pstate, memory
<1>11. QED
  BY <1>3, <1>4, <1>5, <1>6, <1>7, <1>8, <1>9, <1>10 DEF Next

\* A lock of a release is never left behind: conflict, failure, retry, crash or
\* success, whoever is in Service.active is being executed by the process whose
\* memory that is, and will come to mutate's deferred unlock. (That it does,
\* EveryLockIsFreed, is liveness.)
THEOREM NoLockIsLeft == Spec => []LockHasOwner
<1>1. Init => LockHasOwner
  BY DEF Init, PInit, LockHasOwner
<1>2. QED
  BY <1>1, OwnersStep, Invariance, PTL DEF Spec
=============================================================================
