------------------------------ MODULE Webhooks ------------------------------
(***************************************************************************)
(* The webhook service, internal/service/webhook_service.go: administrators*)
(* edit webhooks while resource events, each in a goroutine of its own     *)
(* (informer.go notify), are matched against them and delivered under a    *)
(* semaphore.  Payloads and signatures are left out.                       *)
(***************************************************************************)
EXTENDS Naturals, FiniteSets, FiniteSetsExt

CONSTANTS
  Hooks,       \* webhook ids: an initial segment of the numbers from 1
  Editors,     \* requests that edit webhooks
  HookRows,    \* the rows a request may ask for
  Kinds,       \* the resource events: records of type, cluster and resource
  MaxEvents,   \* bound: events
  MaxEdits,    \* bound: edits
  Slots        \* webhookDispatchConcurrency

Events == 1..MaxEvents
Gone == [active |-> FALSE]   \* no row
NotYet == [type |-> "none"]  \* no event

WebhooksAssumption ==
  /\ Hooks \subseteq Nat \ {0} /\ IsFiniteSet(Hooks) /\ NotYet \notin Kinds
  /\ MaxEvents \in Nat /\ MaxEdits \in Nat /\ Slots \in Nat \ {0}

VARIABLES
  rows,    \* the webhooks table
  edit,    \* Editors -> what the request has read and is about to save
  edits,   \* edits so far
  event,   \* Events -> the event
  task,    \* Events -> the goroutine of DispatchEvent: its phase and the hooks left to try
  flight,  \* deliveries under way, each in a goroutine that holds a slot
  tried,   \* deliveries that have ended
  scope    \* history: Events -> hooks that were active and matching since the event

hookVars == <<rows, edit, edits>>
vars == <<rows, edit, edits, event, task, flight, tried, scope>>

(* An empty filter matches everything.                                     *)
Passes(filter, value) == filter = {} \/ value \in filter
Matches(row, e) ==
  /\ Passes(row.events, e.type) /\ Passes(row.clusters, e.cluster)
  /\ Passes(row.resources, e.resource)
Wanted(table, e) ==
  IF e = NotYet THEN {} ELSE {h \in Hooks : table[h].active /\ Matches(table[h], e)}

Deliveries == Hooks \X Events
Idle == [phase |-> "idle"]

TypeOK ==
  /\ rows \in [Hooks -> HookRows \cup {Gone}]
  /\ \A a \in Editors : edit[a] = Idle \/ (edit[a].hook \in Hooks /\ edit[a].row \in HookRows)
  /\ edits \in 0..MaxEdits
  /\ event \in [Events -> Kinds \cup {NotYet}]
  /\ \A n \in Events : task[n].phase \in {"none", "new", "listed", "done"} /\ task[n].left \subseteq Hooks
  /\ flight \subseteq Deliveries /\ tried \subseteq Deliveries /\ Cardinality(flight) <= Slots
  /\ scope \in [Events -> SUBSET Hooks]

Init ==
  /\ rows \in [Hooks -> HookRows \cup {Gone}]
  /\ edit = [a \in Editors |-> Idle] /\ edits = 0
  /\ event = [n \in Events |-> NotYet]
  /\ task = [n \in Events |-> [phase |-> "none", left |-> {}]]
  /\ flight = {} /\ tried = {}
  /\ scope = [n \in Events |-> {}]

-----------------------------------------------------------------------------
(* Requests.  A refused URL changes nothing and is not an action.          *)
Write(table) ==
  /\ rows' = table
  /\ scope' = [n \in Events |-> scope[n] \cup Wanted(table, event[n])]
  /\ UNCHANGED <<event, task, flight, tried>>

CountEdit == edits < MaxEdits /\ edits' = edits + 1

Create(h, row) ==
  /\ CountEdit /\ rows[h] = Gone
  /\ Write([rows EXCEPT ![h] = row]) /\ UNCHANGED edit

(* Update reads the row, replaces its fields and saves it: Save inserts    *)
(* the row again when it was deleted in between.                           *)
BeginUpdate(a, h, row) ==
  /\ CountEdit /\ edit[a] = Idle /\ rows[h] # Gone
  /\ edit' = [edit EXCEPT ![a] = [phase |-> "save", hook |-> h, row |-> row]]
  /\ UNCHANGED <<rows, event, task, flight, tried, scope>>
SaveUpdate(a) ==
  /\ edit[a] # Idle
  /\ Write([rows EXCEPT ![edit[a].hook] = edit[a].row])
  /\ edit' = [edit EXCEPT ![a] = Idle] /\ UNCHANGED edits

Delete(h) ==
  /\ CountEdit /\ rows[h] # Gone
  /\ Write([rows EXCEPT ![h] = Gone]) /\ UNCHANGED edit

-----------------------------------------------------------------------------
(* Dispatch.                                                               *)
Happens(n, kind) ==
  /\ event[n] = NotYet /\ \A m \in Events : m < n => event[m] # NotYet
  /\ event' = [event EXCEPT ![n] = kind]
  /\ task' = [task EXCEPT ![n].phase = "new"]
  /\ scope' = [scope EXCEPT ![n] = Wanted(rows, kind)]
  /\ UNCHANGED <<hookVars, flight, tried>>

\* a slip: every webhook is listed
ListAll(e) == {h \in Hooks : rows[h] # Gone /\ Matches(rows[h], e)}
ListActive(e) == Wanted(rows, e)

(* The list is read once; a failed query drops the event.                  *)
ListHooks(n) ==
  /\ task[n].phase = "new"
  /\ \E left \in {ListActive(event[n]), {}} :
       task' = [task EXCEPT ![n] = [phase |-> "listed", left |-> left]]
  /\ UNCHANGED <<hookVars, event, flight, tried, scope>>

(* The dispatching goroutine waits for a slot, then spawns the delivery.   *)
Spawn(n) ==
  /\ task[n].phase = "listed" /\ task[n].left # {} /\ Cardinality(flight) < Slots
  /\ LET h == Min(task[n].left) IN
       /\ flight' = flight \cup {<<h, n>>}
       /\ task' = [task EXCEPT ![n].left = @ \ {h}]
  /\ UNCHANGED <<hookVars, event, tried, scope>>
Dispatched(n) ==
  /\ task[n].phase = "listed" /\ task[n].left = {}
  /\ task' = [task EXCEPT ![n].phase = "done"]
  /\ UNCHANGED <<hookVars, event, flight, tried, scope>>

(* sendPayload: one POST with a timeout of ten seconds, tried once.        *)
(* Delivered or not, the slot is given back.                               *)
\* a slip: the slot is given back after a success only
FreedOnSuccess(d, ok) == IF ok THEN {d} ELSE {}
Freed(d, ok) == {d}
SendEnds(d) ==
  /\ d \in flight \ tried
  /\ \E ok \in BOOLEAN : flight' = flight \ Freed(d, ok)
  /\ tried' = tried \cup {d}
  /\ UNCHANGED <<hookVars, event, task, scope>>

Edit == \E h \in Hooks :
  \/ Delete(h)
  \/ \E row \in HookRows : Create(h, row) \/ \E a \in Editors : BeginUpdate(a, h, row)
Dispatch(n) == ListHooks(n) \/ Spawn(n) \/ Dispatched(n)

Next ==
  \/ Edit
  \/ \E a \in Editors : SaveUpdate(a)
  \/ \E n \in Events : Dispatch(n) \/ \E kind \in Kinds : Happens(n, kind)
  \/ \E d \in Deliveries : SendEnds(d)

(* Goroutines run, a POST ends by its timeout, and senders waiting on the  *)
(* semaphore's channel are served in turn.                                 *)
Fairness ==
  /\ \A n \in Events : SF_vars(Dispatch(n))
  /\ \A d \in Deliveries : WF_vars(SendEnds(d))

Spec == Init /\ [][Next]_vars
FairSpec == Spec /\ Fairness

-----------------------------------------------------------------------------
(* An event is only delivered to webhooks that were active and matched it  *)
(* at some time since it happened: never to one switched off, deleted or   *)
(* narrowed before, whatever edits overlap.                                *)
OnlyInScope == \A d \in flight \cup tried : d[1] \in scope[d[2]]

(* Every event is dispatched and every delivery it started ends, though    *)
(* more events happen than there are slots and receivers fail.             *)
EveryEventIsDispatched ==
  \A n \in Events :
    (task[n].phase = "new") ~> (task[n].phase = "done" /\ \A h \in Hooks : <<h, n>> \notin flight)
=============================================================================
