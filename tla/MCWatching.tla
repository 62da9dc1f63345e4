----------------------------- MODULE MCWatching -----------------------------
(***************************************************************************)
(* What keeps watch on the clusters, for TLC: the informers, the cluster   *)
(* service of one replica, and the webhooks that resource events go to.    *)
(* The three keep separate state, so a behaviour exercises one of them,    *)
(* chosen at first, and leaves the others as they were.                    *)
(***************************************************************************)
EXTENDS InformerManager, TLC

CONSTANTS
  Replicas, Names, MaxAdds, MaxFaults, MaxCrashes, MaxClusterOutages,
  Hooks, Editors, HookRows, Kinds, MaxEvents, MaxEdits, Slots

VARIABLES
  part,
  rows, client, informer, job, adds, answering, probed, saved, faults, crashes, clusterOutages,
  hooks, edit, edits, event, task, flight, tried, scope

Service == INSTANCE ClusterService WITH
  reachable <- answering, outages <- clusterOutages, MaxOutages <- MaxClusterOutages
Hook == INSTANCE Webhooks WITH rows <- hooks

ASSUME ServiceAssumption == Service!ConstantsAssumption
ASSUME WebhooksAssumption == Hook!WebhooksAssumption

serviceVars == <<rows, client, informer, job, adds, answering, probed, saved, faults, crashes,
                 clusterOutages>>
hookVars == <<hooks, edit, edits, event, task, flight, tried, scope>>
all == <<part, vars, serviceVars, hookVars>>

(* The parts that do not run have one initial state each.                  *)
MCInit ==
  /\ part \in {"informers", "service", "webhooks"}
  /\ Init /\ Service!Init /\ Hook!Init
  /\ part # "informers" => runtime = [r \in Runtimes |-> Unused(CHOOSE c \in Clusters : TRUE)]
  /\ part # "webhooks" => \A h \in Hooks : hooks[h] = Hook!Gone

MCNext ==
  /\ UNCHANGED part
  /\ \/ part = "informers" /\ Next /\ UNCHANGED <<serviceVars, hookVars>>
     \/ part = "service" /\ Service!Next /\ UNCHANGED <<vars, hookVars>>
     \/ part = "webhooks" /\ Hook!Next /\ UNCHANGED <<vars, serviceVars>>

(* The fairness of each module, where it is the part that runs.            *)
MCFairness ==
  /\ \A r \in Runtimes :
       /\ WF_vars(part = "informers" /\ StartFactory(r))
       /\ WF_vars(part = "informers" /\ Fill(r))
       /\ WF_vars(part = "informers" /\ WaitReturns(r))
       /\ WF_vars(part = "informers" /\ MarkSynced(r))
  /\ \A r \in Replicas :
       /\ WF_serviceVars(part = "service" /\ Service!Proceed(r))
       /\ WF_serviceVars(part = "service" /\ Service!RefreshHealth(r))
       /\ WF_serviceVars(part = "service" /\ Service!InitClusters(r))
  /\ \A n \in Hook!Events : SF_hookVars(part = "webhooks" /\ Hook!Dispatch(n))
  /\ \A d \in Hook!Deliveries : WF_hookVars(part = "webhooks" /\ Hook!SendEnds(d))

MCSpec == MCInit /\ [][MCNext]_all /\ MCFairness

MCRows ==
  LET Row(on, types, where) ==
        [active |-> on, events |-> types, clusters |-> where, resources |-> {"pods"}]
  IN {Row(TRUE, {}, {}), Row(TRUE, {"ADDED"}, {"east"}), Row(FALSE, {}, {"east"})}
MCKinds == {[type |-> t, cluster |-> "east", resource |-> "pods"] : t \in {"ADDED", "DELETED"}}

(* ClusterService: a connection has the credentials of its row, a removed  *)
(* cluster is forgotten, and a reachable one is healthy and watched in the *)
(* end if nothing fails any more.                                          *)
ConnectedAsSaved == Service!ConnectedAsSaved
RemovedIsForgotten == Service!RemovedIsForgotten
GreenWithoutFaults == Service!GreenWithoutFaults

(* Webhooks: each event is dispatched.                                     *)
EveryEventIsDispatched == Hook!EveryEventIsDispatched
=============================================================================
