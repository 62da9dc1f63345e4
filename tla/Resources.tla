------------------------------ MODULE Resources ------------------------------
(***************************************************************************)
(* Reading and changing the objects of one Kubernetes cluster: the request *)
(* handlers of internal/handler/resource_handler.go and                    *)
(* resource_action_handler.go, their services and the calls they make to   *)
(* the API server.  Between two calls of a request the objects may change, *)
(* by another client's request or by somebody outside.                     *)
(*                                                                         *)
(* An object's specification is a value for each setting, Unset where it   *)
(* says nothing.  Namespaces, kinds and the rest of the manifest are left  *)
(* out; a name stands for one object of one kind.                          *)
(***************************************************************************)
EXTENDS Naturals, Sequences, FiniteSets

CONSTANTS
  Clients,      \* callers of the HTTP interface
  Deployments,  \* names of deployments, whose changes are rolled out
  Pods,         \* names of pods
  Cached,       \* names whose kind is read from the informer cache
  Values,       \* values of the settings a user edits
  Batches,      \* the sequences of names a batch request may list
  MaxVersion,   \* bound: resourceVersion of the cluster
  MaxRevision,  \* bound: rollouts of a deployment
  MaxClock      \* bound: seconds

Names == Deployments \cup Pods
Unset == 0
TemplateSettings == {"image", "stamp"}   \* stamp: the restartedAt annotation
Settings == TemplateSettings \cup {"replicas"}
Edited == {"image", "replicas"}
Absent == [uid |-> 0]

(* The bounds allow a first version, revision and second.                  *)
ResourcesAssumption ==
  /\ Values \subseteq Nat /\ Batches \subseteq Seq(Names)
  /\ {MaxVersion, MaxRevision, MaxClock} \subseteq Nat \ {0}

VARIABLES
  objects,  \* Names -> the object in the API server, or Absent
  sets,     \* the ReplicaSets: owner's uid, revision annotation, template
  version,  \* the last resourceVersion given
  cache,    \* Names -> the object as the informer cache has it
  clusterExists,  \* the cluster's row exists and the manager has its client
  clock,    \* seconds, for the restart annotation
  ask       \* Clients -> the client's last request

vars == <<objects, sets, version, cache, clusterExists, clock, ask>>

Template(spec) == [s \in TemplateSettings |-> spec[s]]
Live(n) == objects[n] # Absent

(* results answers the items in their order; done has for each the version *)
(* at which the API server applied it, or 0.  named and base, for the      *)
(* properties: the settings the request means to set, the version its      *)
(* author had read.                                                        *)
NoRequest ==
  [op |-> "none", items |-> <<>>, step |-> "item", read |-> Absent, revision |-> 0,
   target |-> <<>>, written |-> <<>>, named |-> {}, base |-> 0,
   next |-> 1, results |-> <<>>, done |-> <<>>]

Free(c) == ask[c].next > Len(ask[c].items)
Item(c) == ask[c].items[ask[c].next]
Working(c, op) == ~Free(c) /\ ask[c].op = op

TypeOK ==
  /\ \A n \in Names : Live(n) =>
       /\ objects[n].version \in 1..version /\ objects[n].uid <= objects[n].version
       /\ objects[n].spec \in [Settings -> Nat]
  /\ \A rs \in sets : rs.revision \in 1..MaxRevision
  /\ version \in 0..MaxVersion /\ clock \in 1..MaxClock /\ clusterExists \in BOOLEAN
  /\ \A n \in Names : cache[n] = Absent \/ cache[n].version <= version
  /\ \A c \in Clients : /\ ask[c].next \in 1..Len(ask[c].items) + 1
                        /\ Len(ask[c].done) = ask[c].next - 1

First == [s \in Settings |-> IF s = "stamp" THEN Unset ELSE 1]
Init ==
  /\ objects = [n \in Names |-> [name |-> n, uid |-> 1, version |-> 1, spec |-> First,
                                 revision |-> 1, managed |-> n \in Pods]]
  /\ sets = IF Deployments = {} THEN {}
            ELSE {[owner |-> 1, revision |-> 1, template |-> Template(First)]}
  /\ version = 1
  /\ cache = objects
  /\ clusterExists = TRUE
  /\ clock = 1
  /\ ask = [c \in Clients |-> NoRequest]

-----------------------------------------------------------------------------
(* The calls of repository/k8s_repo.go to the API server.  A call is       *)
(* refused, or applied; the answer of one that was applied may be lost.    *)

Rejected == {[objects |-> objects, version |-> version, applied |-> FALSE, answer |-> FALSE]}

Applied(n, object) ==
  IF object = objects[n]
  THEN {[objects |-> objects, version |-> version, applied |-> TRUE, answer |-> TRUE]}
  ELSE {[objects |-> [objects EXCEPT ![n] = object], version |-> version + 1,
         applied |-> TRUE, answer |-> heard] : heard \in BOOLEAN}

When(condition, outcomes) ==
  Rejected \cup (IF condition /\ version < MaxVersion THEN outcomes ELSE {})

New(n, spec, managed) ==
  [name |-> n, uid |-> version + 1, version |-> version + 1, spec |-> spec, revision |-> 0, managed |-> managed]

(* A change that changes nothing gives the object no new version.          *)
Changed(n, spec) ==
  IF spec = objects[n].spec THEN objects[n]
  ELSE [objects[n] EXCEPT !.spec = spec, !.version = version + 1]

CreateCall(n, spec) == When(~Live(n), Applied(n, New(n, spec, FALSE)))

(* A manifest with a resourceVersion is refused when the object has        *)
(* another one; without, it replaces whatever is there.                    *)
UpdateCall(n, body) ==
  When(Live(n) /\ body.version \in {0, objects[n].version}, Applied(n, Changed(n, body.spec)))

(* A patch gives values to some settings.                                  *)
Only(setting, value) == [s \in {setting} |-> value]
Merged(patch, spec) == [s \in Settings |-> IF s \in DOMAIN patch THEN patch[s] ELSE spec[s]]

\* a slip: a client that builds the whole object from what it has cached
PatchedCache(n, patch) ==
  When(Live(n) /\ cache[n] # Absent, Applied(n, Changed(n, Merged(patch, cache[n].spec))))

(* A strategic merge patch: a setting it does not mention keeps its value. *)
PatchCall(n, patch) == When(Live(n), Applied(n, Changed(n, Merged(patch, objects[n].spec))))

DeleteCall(n) == When(Live(n), Applied(n, Absent))

Get(n) == IF n \in Cached THEN cache[n] ELSE objects[n]
List == {n \in Names : Get(n) # Absent}
DryRunCreateCall(n) == IF Live(n) THEN {FALSE} ELSE BOOLEAN
DryRunUpdateCall(n, body) ==
  IF Live(n) /\ body.version \in {0, objects[n].version} THEN BOOLEAN ELSE {FALSE}

-----------------------------------------------------------------------------
(* service/resource_service.go: each asks for the cluster's row first.     *)

IfKnown(outcomes) == IF clusterExists THEN outcomes ELSE Rejected

ListResources == IF clusterExists THEN List ELSE {}
GetResource(n) == IF clusterExists THEN Get(n) ELSE Absent
CreateResource(n, spec) == IfKnown(CreateCall(n, spec))
UpdateResource(n, body) == IfKnown(UpdateCall(n, body))
PatchResource(n, patch) == IfKnown(PatchCall(n, patch))
DeleteResource(n) == IfKnown(DeleteCall(n))
DryRunCreateResource(n) == IF clusterExists THEN DryRunCreateCall(n) ELSE {FALSE}
DryRunUpdateResource(n, body) == IF clusterExists THEN DryRunUpdateCall(n, body) ELSE {FALSE}

-----------------------------------------------------------------------------
(* The handlers of resource_handler.go.                                    *)

Take(outcome) == objects' = outcome.objects /\ version' = outcome.version
Quiet == UNCHANGED <<sets, cache, clusterExists, clock>>

Respond(c, request) == ask' = [ask EXCEPT ![c] = request]

(* An item is answered: the request goes on with the next one, or is over. *)
Settled(request, outcome) ==
  [request EXCEPT !.done = Append(@, IF outcome.applied THEN outcome.version ELSE 0), !.next = @ + 1,
                  !.step = "item", !.read = Absent]

Answer(request, outcome) ==
  [Settled(request, outcome) EXCEPT !.results = Append(@, outcome.answer)]

Asked(op, n, named, base) ==
  [NoRequest EXCEPT !.op = op, !.items = <<n>>, !.named = named, !.base = base]

(* One call answers the whole request.                                     *)
Once(c, request, outcomes) ==
  /\ Free(c)
  /\ \E outcome \in outcomes : Take(outcome) /\ Respond(c, Answer(request, outcome))
  /\ Quiet

(* Reading: the client goes on with the object it was shown.               *)
Show(c, object) ==
  /\ Free(c) /\ object # Absent
  /\ Respond(c, [NoRequest EXCEPT !.op = "get", !.read = object])
  /\ Quiet /\ UNCHANGED <<objects, version>>

GetObject(c, n) == Show(c, GetResource(n))
ListObjects(c) == \E n \in ListResources : Show(c, Get(n))

Create(c, n, v) ==
  Once(c, Asked("create", n, Settings, 0), CreateResource(n, [First EXCEPT !["image"] = v]))

(* The author edits one setting of the object shown; the manifest keeps    *)
(* the resourceVersion or not, and then stands for every setting.          *)
Body(c, s, v, keep) ==
  [spec |-> [ask[c].read.spec EXCEPT ![s] = v], version |-> IF keep THEN ask[c].read.version ELSE 0]
Shown(c, n) == ask[c].op = "get" /\ ask[c].read.name = n

Update(c, n, s, v, keep) ==
  /\ Shown(c, n)
  /\ Once(c, Asked("update", n, IF keep THEN {s} ELSE Settings, ask[c].read.version),
          UpdateResource(n, Body(c, s, v, keep)))

Patch(c, n, s, v) == Once(c, Asked("patch", n, {s}, 0), PatchResource(n, Only(s, v)))
Delete(c, n) == Once(c, Asked("delete", n, {}, 0), DeleteResource(n))

(* A dry run asks the API server what it would answer, and tells the       *)
(* client; the live object it shows beside it is left out.                 *)
DryRunEnds(c, valid) ==
  /\ Respond(c, [NoRequest EXCEPT !.op = IF valid THEN "dryRunValid" ELSE "dryRunInvalid"])
  /\ Quiet /\ UNCHANGED <<objects, version>>
DryRunCreate(c, n) ==
  Free(c) /\ \E valid \in DryRunCreateResource(n) : DryRunEnds(c, valid)
DryRunUpdate(c, n, s, v, keep) ==
  /\ Free(c) /\ Shown(c, n)
  /\ \E valid \in DryRunUpdateResource(n, Body(c, s, v, keep)) : DryRunEnds(c, valid)

BatchDelete(c, items) ==
  /\ Free(c)
  /\ Respond(c, [NoRequest EXCEPT !.op = "batchDelete", !.items = items])
  /\ Quiet /\ UNCHANGED <<objects, version>>

(* One item of a batch: a failure is answered and the next item follows.   *)
ItemCall(c, outcomes) ==
  /\ \E outcome \in outcomes : Take(outcome) /\ Respond(c, Answer(ask[c], outcome))
  /\ Quiet

DeleteItem(c) == Working(c, "batchDelete") /\ ItemCall(c, DeleteResource(Item(c)))

-----------------------------------------------------------------------------
(* service/resource_action_service.go, through clients of its own.         *)

ScaleWorkload(n, v) == IfKnown(PatchCall(n, Only("replicas", v)))

Scale(c, n, v) ==
  n \in Deployments /\ Once(c, Asked("scale", n, {"replicas"}, 0), ScaleWorkload(n, v))

(* One restart, or a batch of them.                                        *)
BatchRestart(c, items) ==
  /\ Free(c)
  /\ Respond(c, [NoRequest EXCEPT !.op = "restart", !.items = items, !.named = {"stamp"}])
  /\ Quiet /\ UNCHANGED <<objects, version>>
Restart(c, n) == BatchRestart(c, <<n>>)

RestartWorkload(c) ==
  /\ Working(c, "restart") /\ Item(c) \in Deployments
  /\ ItemCall(c, IfKnown(PatchCall(Item(c), Only("stamp", clock))))

(* A pod with a controller is deleted, for the controller to make again.   *)
RestartPodGet(c) ==
  /\ Working(c, "restart") /\ Item(c) \in Pods /\ ask[c].step = "item"
  /\ \/ /\ clusterExists /\ Live(Item(c)) /\ objects[Item(c)].managed
        /\ Respond(c, [ask[c] EXCEPT !.step = "delete", !.read = objects[Item(c)]])
        /\ Quiet /\ UNCHANGED <<objects, version>>
     \/ ItemCall(c, Rejected)
RestartPodDelete(c) ==
  /\ Working(c, "restart") /\ ask[c].step = "delete"
  /\ ItemCall(c, DeleteCall(Item(c)))

(* Rollback: get the deployment, list its ReplicaSets, patch its template. *)
Owned(o) == {rs \in sets : rs.owner = o.uid}
RolloutHistory(n) ==
  IF clusterExists /\ Live(n) THEN {rs.revision : rs \in Owned(objects[n])} ELSE {}

Rollback(c, n, revision) ==
  /\ Free(c) /\ n \in Deployments
  /\ Respond(c, [Asked("rollback", n, TemplateSettings, 0) EXCEPT !.revision = revision])
  /\ Quiet /\ UNCHANGED <<objects, version>>

RollbackGet(c) ==
  /\ Working(c, "rollback") /\ ask[c].step = "item"
  /\ \/ /\ clusterExists /\ Live(Item(c))
        /\ Respond(c, [ask[c] EXCEPT !.step = "list", !.read = objects[Item(c)]])
        /\ Quiet /\ UNCHANGED <<objects, version>>
     \/ ItemCall(c, Rejected)

(* Revision 0 stands for the one before the deployment's annotation.       *)
Wanted(request) ==
  IF request.revision # 0 THEN request.revision
  ELSE IF request.read.revision > 0 THEN request.read.revision - 1 ELSE 0

RollbackList(c) ==
  /\ Working(c, "rollback") /\ ask[c].step = "list"
  /\ LET found == {rs \in Owned(ask[c].read) : rs.revision = Wanted(ask[c])}
     IN \/ \E rs \in found :
             /\ Respond(c, [ask[c] EXCEPT !.step = "patch", !.target = rs.template])
             /\ Quiet /\ UNCHANGED <<objects, version>>
        \/ ItemCall(c, Rejected)

(* The patch is the template as JSON: what it leaves unset is not in it.   *)
AsPatch(template) ==
  [s \in {t \in TemplateSettings : template[t] # Unset} |-> template[s]]

RollbackPatch(c) ==
  /\ Working(c, "rollback") /\ ask[c].step = "patch"
  /\ \E outcome \in PatchCall(Item(c), AsPatch(ask[c].target)) :
       LET o == outcome.objects[Item(c)] IN
       /\ Take(outcome)
       /\ Respond(c, [Answer(ask[c], outcome) EXCEPT
                        !.written = IF outcome.answer THEN Template(o.spec) ELSE <<>>])
  /\ Quiet

-----------------------------------------------------------------------------
(* The cluster, its controllers and the rest of the server.                *)

Environment == UNCHANGED <<ask, clusterExists>>

(* The deployment controller gives a changed template the next revision,   *)
(* on the ReplicaSet that already has it or on a new one.                  *)
Rollout(n) ==
  /\ n \in Deployments /\ Live(n) /\ version < MaxVersion
  /\ LET owned == Owned(objects[n])
         template == Template(objects[n].spec)
         same == {rs \in owned : rs.template = template}
         latest == IF owned = {} THEN 0
                   ELSE CHOOSE r \in {rs.revision : rs \in owned} :
                          \A rs \in owned : rs.revision <= r
         revision == IF \E rs \in same : rs.revision = latest THEN latest ELSE latest + 1
     IN /\ revision # objects[n].revision /\ revision <= MaxRevision
        /\ sets' = (sets \ same) \cup
                   {[owner |-> objects[n].uid, revision |-> revision, template |-> template]}
        /\ objects' = [objects EXCEPT ![n].revision = revision, ![n].version = version + 1]
        /\ version' = version + 1
  /\ Environment /\ UNCHANGED <<cache, clock>>

(* Somebody else changes an object, with kubectl or another server.        *)
Others(n) ==
  /\ Live(n) /\ version < MaxVersion
  /\ \/ objects' = [objects EXCEPT ![n] = Absent]
     \/ \E s \in Edited, v \in Values :
          /\ objects[n].spec[s] # v
          /\ objects' = [objects EXCEPT ![n] = Changed(n, Merged(Only(s, v), objects[n].spec))]
  /\ version' = version + 1
  /\ Environment /\ UNCHANGED <<sets, cache, clock>>

(* ReplicaSets whose deployment is gone are collected.                     *)
Collect ==
  /\ sets' = {rs \in sets : \E n \in Names : Live(n) /\ objects[n].uid = rs.owner}
  /\ sets' # sets
  /\ Environment /\ UNCHANGED <<objects, version, cache, clock>>

(* A controller makes a pod again under its name.                          *)
Recreate(n) ==
  /\ n \in Pods /\ ~Live(n) /\ version < MaxVersion
  /\ objects' = [objects EXCEPT ![n] = New(n, First, TRUE)]
  /\ version' = version + 1
  /\ Environment /\ UNCHANGED <<sets, cache, clock>>

SyncCache(n) ==
  /\ cache[n] # objects[n] /\ cache' = [cache EXCEPT ![n] = objects[n]]
  /\ Environment /\ UNCHANGED <<objects, sets, version, clock>>

Tick ==
  /\ clock < MaxClock /\ clock' = clock + 1
  /\ Environment /\ UNCHANGED <<objects, sets, version, cache>>

RemoveCluster ==
  /\ clusterExists /\ clusterExists' = FALSE
  /\ UNCHANGED <<objects, sets, version, cache, clock, ask>>

Read(c) == (\E n \in Names : GetObject(c, n) \/ DryRunCreate(c, n)) \/ ListObjects(c)
Write(c) ==
  \E n \in Names :
    \/ Delete(c, n) \/ Restart(c, n)
    \/ \E v \in Values : Create(c, n, v) \/ Scale(c, n, v)
    \/ \E s \in Edited, v \in Values :
         \/ Patch(c, n, s, v)
         \/ \E keep \in BOOLEAN : Update(c, n, s, v, keep) \/ DryRunUpdate(c, n, s, v, keep)
    \/ \E revision \in {0} \cup RolloutHistory(n) : Rollback(c, n, revision)
Batch(c) ==
  \/ \E items \in Batches : BatchDelete(c, items) \/ BatchRestart(c, items)
  \/ DeleteItem(c) \/ RestartWorkload(c) \/ RestartPodGet(c) \/ RestartPodDelete(c)
RollingBack(c) == RollbackGet(c) \/ RollbackList(c) \/ RollbackPatch(c)

Next ==
  \/ \E c \in Clients : Read(c) \/ Write(c) \/ Batch(c) \/ RollingBack(c)
  \/ \E n \in Names : Rollout(n) \/ Others(n) \/ Recreate(n) \/ SyncCache(n)
  \/ Collect \/ Tick \/ RemoveCluster

Spec == Init /\ [][Next]_vars

-----------------------------------------------------------------------------
(* No update is lost: a request changes the settings it means to set, and  *)
(* any other only if its author had read the object as it is (the version  *)
(* a manifest carries, the merge a patch asks for).                        *)
NoUnseenOverwrite ==
  [][\A n \in Names : (Live(n) /\ Live(n)' /\ objects[n].uid = objects'[n].uid) =>
       \A s \in Settings, c \in Clients :
         (objects[n].spec[s] # objects'[n].spec[s] /\ ask'[c] # ask[c]) =>
           s \in ask'[c].named \/ ask'[c].base = objects[n].version]_vars

(* A batch that is over has answered each of its items, in their order,    *)
(* and says of none that it succeeded unless the API server applied it,    *)
(* whatever failed before it and wherever the cluster went meanwhile.      *)
BatchAnswersEach ==
  \A c \in Clients : Free(c) =>
    /\ ask[c].op \in {"batchDelete", "restart"} => Len(ask[c].results) = Len(ask[c].items)
    /\ \A i \in DOMAIN ask[c].results : ask[c].results[i] => ask[c].done[i] > 0

(* A rollback that succeeds restores the pod template of the revision it   *)
(* was asked for (resource_action_service.go, Rollback).                   *)
RollbackRestores ==
  \A c \in Clients : ask[c].written \in [TemplateSettings -> Nat] =>
    ask[c].written = ask[c].target
=============================================================================
