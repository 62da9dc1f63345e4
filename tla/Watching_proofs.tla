-------------------------- MODULE Watching_proofs --------------------------
(***************************************************************************)
(* Proofs about the parts that MCWatching composes and about their sum,    *)
(* for any values of their constants.                                      *)
(*                                                                         *)
(* The informers (InformerManager): the map holds exactly what runs, and a *)
(* synchronisation flag can be wrong in one way only.  The webhooks (Hook, *)
(* an instance of Webhooks): an event is delivered to webhooks that were   *)
(* active and matched it, and to each of them once.  The cluster service   *)
(* (Service) is proved about in ClusterService_proofs, which Cluster       *)
(* instantiates: here its result is carried over to the sum.               *)
(***************************************************************************)
EXTENDS MCWatching, TLAPS, FiniteSetTheorems, WellFoundedInduction

Used(r) == runtime[r].phase # "unused"

\* Runtimes are used in the order of their numbers; an unused one is blank,
\* and only a started one is filled or waited for.
InOrder ==
  \A r \in Runtimes :
    /\ Used(r) <=> r <= starts
    /\ ~Used(r) => ~runtime[r].cancelled /\ ~runtime[r].synced
    /\ runtime[r].filled \/ runtime[r].waiter # "none" => Used(r)

\* What the map holds for a cluster is a runtime of that cluster, its newest.
NewestIsCurrent ==
  \A c \in Clusters : clusters[c] # None =>
    /\ Used(clusters[c]) /\ runtime[clusters[c]].cluster = c
    /\ \A s \in Runtimes : Used(s) /\ runtime[s].cluster = c => s <= clusters[c]

\* A goroutine that is about to mark has seen its own runtime filled.
MarkersAreFilled == \A r \in Runtimes : runtime[r].waiter = "marking" => runtime[r].filled

IInv == TypeOK /\ InOrder /\ NewestIsCurrent /\ MarkersAreFilled /\ RunsIffCurrent /\ WrongFlagNeedsReplacement

-----------------------------------------------------------------------------
\* x and y differ in nothing but whether they are cancelled.
SameButCancelled(x, y) ==
  /\ y.cluster = x.cluster /\ y.phase = x.phase /\ y.filled = x.filled
  /\ y.waiter = x.waiter /\ y.synced = x.synced /\ y.lastSync = x.lastSync

\* Cancelling a runtime keeps the rest of it.
LEMMA CancelledFields ==
  ASSUME NEW x \in Runtime
  PROVE  LET y == [x EXCEPT !.cancelled = TRUE]
         IN  y \in Runtime /\ SameButCancelled(x, y) /\ y.cancelled = TRUE
BY DEF Runtime, SameButCancelled

\* Marking a runtime sets its flag and its time and keeps the rest.
LEMMA MarkedFields ==
  ASSUME NEW x \in Runtime
  PROVE  LET y == Marked(x)
         IN  /\ y \in Runtime /\ y.synced = TRUE /\ y.lastSync = "recent"
             /\ y.cluster = x.cluster /\ y.phase = x.phase /\ y.filled = x.filled
             /\ y.waiter = x.waiter /\ y.cancelled = x.cancelled
BY DEF Runtime, Marked

\* The end of its goroutine keeps the rest of a runtime.
LEMMA DoneFields ==
  ASSUME NEW x \in Runtime
  PROVE  LET y == [x EXCEPT !.waiter = "done"]
         IN  /\ y \in Runtime /\ y.waiter = "done" /\ y.cluster = x.cluster /\ y.phase = x.phase
             /\ y.filled = x.filled /\ y.cancelled = x.cancelled /\ y.synced = x.synced
             /\ y.lastSync = x.lastSync
BY DEF Runtime

\* Nothing is started at first.
LEMMA InitIInv == Init => IInv
<1> SUFFICES ASSUME Init PROVE IInv
  OBVIOUS
<1>1. PICK c \in Clusters : runtime = [r \in Runtimes |-> Unused(c)]
  BY DEF Init
<1>2. \A r \in Runtimes : runtime[r] = [NewRuntime(c) EXCEPT !.phase = "unused"]
  BY <1>1 DEF Unused
<1>3. \A r \in Runtimes : /\ runtime[r].phase = "unused" /\ runtime[r].waiter = "none"
                          /\ runtime[r].lastSync = "never"
                          /\ runtime[r].cancelled = FALSE /\ runtime[r].filled = FALSE
                          /\ runtime[r].synced = FALSE
  BY <1>2 DEF NewRuntime
<1>4. Unused(c) \in Runtime /\ NoAnswer \in Answer
  BY DEF Unused, NewRuntime, Runtime, NoAnswer, Answer
<1>5. TypeOK
  <2>1. runtime \in [Runtimes -> Runtime]
    BY <1>1, <1>4
  <2>2. /\ clusters \in [Clusters -> Runtimes \cup {None}] /\ starts \in 0..MaxStarts
        /\ reachable \in SUBSET Clusters /\ outages \in 0..MaxOutages /\ answer \in Answer
    BY <1>4, ConstantsAssumption DEF Init
  <2>3. \A r \in Runtimes : (runtime[r].lastSync # "never") <=> runtime[r].synced
    BY <1>3
  <2> QED BY <2>1, <2>2, <2>3 DEF TypeOK
<1>6. InOrder
  <2>1. \A r \in Runtimes : ~(r <= starts)
    BY DEF Init, Runtimes
  <2> QED BY <1>3, <2>1 DEF InOrder, Used
<1>7. NewestIsCurrent /\ MarkersAreFilled /\ RunsIffCurrent /\ WrongFlagNeedsReplacement
  BY <1>3 DEF Init, NewestIsCurrent, MarkersAreFilled, RunsIffCurrent, WrongFlagNeedsReplacement
<1> QED BY <1>5, <1>6, <1>7 DEF IInv

\* StartForCluster: the replaced runtime, if any, is the one that is cancelled.
LEMMA StoreIInv ==
  ASSUME IInv, NEW c \in Clusters, StoreRuntime(c)
  PROVE  IInv'
<1> DEFINE t   == starts + 1
           old == clusters[c]
<1> USE ConstantsAssumption DEF Runtimes, None
<1>1. t \in Runtimes /\ ~Used(t) /\ old # t /\ old \in Runtimes \cup {None}
  <2>1. t \in Runtimes /\ old \in Runtimes \cup {None} /\ ~(t <= starts) /\ t # None
    BY DEF IInv, TypeOK, StoreRuntime
  <2>2. ~Used(t) /\ (old # None => Used(old))
    BY <2>1 DEF IInv, InOrder, NewestIsCurrent
  <2> QED BY <2>1, <2>2
<1>2. /\ runtime'[t] = NewRuntime(c) /\ runtime'[t].phase # "unused"
      /\ old # None => runtime'[old] = [runtime[old] EXCEPT !.cancelled = TRUE]
      /\ \A s \in Runtimes : s # t /\ s # old => runtime'[s] = runtime[s]
  <2>1. runtime' = [Cancel({old}) EXCEPT ![t] = NewRuntime(c)]
    BY DEF StoreRuntime
  <2>2. \A s \in Runtimes : Cancel({old})[s] = IF s = old THEN [runtime[s] EXCEPT !.cancelled = TRUE] ELSE runtime[s]
    BY DEF Cancel
  <2>3. \A s \in Runtimes : runtime'[s] = IF s = t THEN NewRuntime(c) ELSE Cancel({old})[s]
    BY <2>1 DEF Cancel
  <2>4. NewRuntime(c).phase = "stored"
    BY DEF NewRuntime
  <2> QED BY <1>1, <2>2, <2>3, <2>4 DEF Used
<1>3. \A s \in Runtimes : s # t => /\ SameButCancelled(runtime[s], runtime'[s])
                                   /\ runtime'[s].cancelled = IF s = old THEN TRUE ELSE runtime[s].cancelled
  <2> SUFFICES ASSUME NEW s \in Runtimes, s # t
               PROVE  /\ SameButCancelled(runtime[s], runtime'[s])
                      /\ runtime'[s].cancelled = IF s = old THEN TRUE ELSE runtime[s].cancelled
    OBVIOUS
  <2>1. runtime[s] \in Runtime /\ s # None
    BY DEF IInv, TypeOK
  <2>2. CASE s = old
    BY <1>2, <2>1, <2>2, CancelledFields
  <2>3. CASE s # old
    BY <1>2, <2>3 DEF SameButCancelled
  <2> QED BY <2>2, <2>3
<1>4. clusters'[c] = t /\ \A d \in Clusters : d # c => clusters'[d] = clusters[d]
  BY DEF StoreRuntime, IInv, TypeOK
<1>5. TypeOK'
  <2>1. NewRuntime(c) \in Runtime /\ NewRuntime(c).lastSync = "never" /\ NewRuntime(c).synced = FALSE
    BY DEF NewRuntime, Runtime
  <2>2. ASSUME NEW s \in Runtimes
        PROVE  runtime'[s] \in Runtime /\ ((runtime'[s].lastSync # "never") <=> runtime'[s].synced)
    <3>1. CASE s = t
      BY <1>2, <2>1, <3>1
    <3>2. CASE s # t
      <4>1. runtime'[s] \in Runtime
        <5>1. runtime[s] \in Runtime /\ s # None
          BY DEF IInv, TypeOK
        <5>2. CASE s = old
          BY <1>2, <5>1, <5>2, CancelledFields
        <5>3. CASE s # old
          BY <1>2, <3>2, <5>1, <5>3
        <5> QED BY <5>2, <5>3
      <4>2. (runtime[s].lastSync # "never") <=> runtime[s].synced
        BY DEF IInv, TypeOK
      <4> QED BY <1>3, <3>2, <4>1, <4>2 DEF SameButCancelled
    <3> QED BY <3>1, <3>2
  <2>3. runtime' \in [Runtimes -> Runtime]
    BY <2>2 DEF StoreRuntime, Cancel
  <2>4. clusters' \in [Clusters -> Runtimes \cup {None}] /\ starts' \in 0..MaxStarts
    BY <1>1 DEF StoreRuntime, IInv, TypeOK
  <2> QED BY <2>2, <2>3, <2>4 DEF StoreRuntime, IInv, TypeOK
<1>6. InOrder'
  <2> SUFFICES ASSUME NEW s \in Runtimes
               PROVE  /\ Used(s)' <=> s <= starts'
                      /\ ~Used(s)' => ~runtime'[s].cancelled /\ ~runtime'[s].synced
                      /\ runtime'[s].filled \/ runtime'[s].waiter # "none" => Used(s)'
    BY DEF InOrder
  <2>1. CASE s = t
    BY <1>2, <2>1 DEF StoreRuntime, Used, IInv, TypeOK
  <2>2. CASE s # t
    <3>1. s <= starts' <=> s <= starts
      BY <2>2 DEF StoreRuntime, IInv, TypeOK
    <3>2. Used(s)' <=> Used(s)
      BY <1>3, <2>2 DEF Used, SameButCancelled
    <3>3. s = old => Used(s)
      BY DEF IInv, NewestIsCurrent
    <3> QED BY <1>3, <2>2, <3>1, <3>2, <3>3 DEF IInv, InOrder, SameButCancelled
  <2> QED BY <2>1, <2>2
<1>7. NewestIsCurrent'
  <2>1. ASSUME NEW s \in Runtimes, Used(s)' PROVE s <= t
    <3>1. CASE s = t
      BY <3>1 DEF IInv, TypeOK
    <3>2. CASE s # t
      <4>1. Used(s)
        BY <1>3, <2>1, <3>2 DEF Used, SameButCancelled
      <4>2. s <= starts
        BY <4>1 DEF IInv, InOrder
      <4> QED BY <4>2 DEF IInv, TypeOK
    <3> QED BY <3>1, <3>2
  <2>2. runtime'[t].cluster = c
    BY <1>2 DEF NewRuntime
  <2>3. ASSUME NEW d \in Clusters, clusters'[d] # None
        PROVE  /\ runtime'[clusters'[d]].phase # "unused" /\ runtime'[clusters'[d]].cluster = d
               /\ \A s \in Runtimes : Used(s)' /\ runtime'[s].cluster = d => s <= clusters'[d]
    <3>1. CASE d = c
      BY <1>2, <1>4, <2>1, <2>2, <3>1
    <3>2. CASE d # c
      <4>1. clusters'[d] = clusters[d] /\ clusters[d] \in Runtimes /\ clusters[d] # t
        BY <1>1, <1>4, <2>3, <3>2 DEF IInv, TypeOK, NewestIsCurrent
      <4>2. Used(clusters[d]) /\ runtime[clusters[d]].cluster = d
            /\ \A s \in Runtimes : Used(s) /\ runtime[s].cluster = d => s <= clusters[d]
        BY <2>3, <4>1 DEF IInv, NewestIsCurrent
      <4>3. SameButCancelled(runtime[clusters[d]], runtime'[clusters[d]])
        BY <1>3, <4>1
      <4>4. ASSUME NEW s \in Runtimes, Used(s)', runtime'[s].cluster = d PROVE s <= clusters[d]
        <5>1. s # t
          BY <2>2, <3>2, <4>4
        <5>2. SameButCancelled(runtime[s], runtime'[s])
          BY <1>3, <5>1
        <5>3. Used(s) /\ runtime[s].cluster = d
          BY <4>4, <5>2 DEF Used, SameButCancelled
        <5> QED BY <4>2, <5>3
      <4>5. runtime'[clusters'[d]].phase # "unused" /\ runtime'[clusters'[d]].cluster = d
        BY <4>1, <4>2, <4>3 DEF Used, SameButCancelled
      <4> QED BY <4>1, <4>4, <4>5
    <3> QED BY <3>1, <3>2
  <2> QED BY <2>3 DEF NewestIsCurrent, Used
<1>8. MarkersAreFilled'
  <2>1. runtime'[t].waiter # "marking"
    BY <1>2 DEF NewRuntime
  <2> QED BY <1>3, <2>1 DEF IInv, MarkersAreFilled, SameButCancelled
<1>9. RunsIffCurrent'
  <2> SUFFICES ASSUME NEW s \in Runtimes, runtime'[s].phase # "unused"
               PROVE  (clusters'[runtime'[s].cluster] = s) <=> ~runtime'[s].cancelled
    BY DEF RunsIffCurrent, IsCurrent
  <2>1. CASE s = t
    <3>1. runtime'[t].cluster = c /\ runtime'[t].cancelled = FALSE
      BY <1>2 DEF NewRuntime
    <3> QED BY <1>4, <2>1, <3>1
  <2>2. CASE s # t
    <3>1. runtime'[s].cluster = runtime[s].cluster /\ runtime[s].cluster \in Clusters /\ Used(s)
      BY <1>3, <2>2 DEF SameButCancelled, Used, IInv, TypeOK, Runtime
    <3>2. (clusters[runtime[s].cluster] = s) <=> ~runtime[s].cancelled
      BY <3>1 DEF IInv, RunsIffCurrent, IsCurrent, Used
    <3>3. CASE runtime[s].cluster = c
      BY <1>3, <1>4, <2>2, <3>1, <3>2, <3>3
    <3>4. CASE runtime[s].cluster # c
      <4>1. s # old
        BY <3>4 DEF IInv, NewestIsCurrent
      <4> QED BY <1>3, <1>4, <2>2, <3>1, <3>2, <3>4, <4>1
    <3> QED BY <3>3, <3>4
  <2> QED BY <2>1, <2>2
<1>10. WrongFlagNeedsReplacement'
  <2> SUFFICES ASSUME NEW s \in Runtimes, runtime'[s].synced, ~runtime'[s].filled
               PROVE  \E q \in Runtimes : /\ q < s /\ runtime'[q].cluster = runtime'[s].cluster
                                          /\ runtime'[q].filled /\ runtime'[q].cancelled
    BY DEF WrongFlagNeedsReplacement
  <2>1. s # t
    BY <1>2 DEF NewRuntime
  <2>2. PICK q \in Runtimes : /\ q < s /\ runtime[q].cluster = runtime[s].cluster
                             /\ runtime[q].filled /\ runtime[q].cancelled
    BY <1>3, <2>1 DEF IInv, WrongFlagNeedsReplacement, SameButCancelled
  <2>3. q # t
    BY <1>1, <2>2 DEF IInv, InOrder
  <2> QED BY <1>3, <2>1, <2>2, <2>3 DEF SameButCancelled
<1> QED BY <1>5, <1>6, <1>7, <1>8, <1>9, <1>10 DEF IInv

\* Taking clusters out of the map and cancelling what it held for them.
LEMMA StopIInv ==
  ASSUME IInv, NEW C \in SUBSET Clusters,
         clusters' = [c \in Clusters |-> IF c \in C THEN None ELSE clusters[c]],
         runtime' = Cancel({clusters[c] : c \in C}),
         UNCHANGED <<starts, reachable, outages, answer>>
  PROVE  IInv'
<1> USE ConstantsAssumption DEF Runtimes, None
<1> DEFINE Held(q) == \E c \in C : clusters[c] = q
<1>1. \A s \in Runtimes : /\ runtime'[s] \in Runtime /\ SameButCancelled(runtime[s], runtime'[s])
                          /\ runtime'[s].cancelled = IF Held(s) THEN TRUE ELSE runtime[s].cancelled
  <2> SUFFICES ASSUME NEW s \in Runtimes
               PROVE  /\ runtime'[s] \in Runtime /\ SameButCancelled(runtime[s], runtime'[s])
                      /\ runtime'[s].cancelled = IF Held(s) THEN TRUE ELSE runtime[s].cancelled
    OBVIOUS
  <2>1. runtime[s] \in Runtime
    BY DEF IInv, TypeOK
  <2>2. runtime'[s] = IF Held(s) THEN [runtime[s] EXCEPT !.cancelled = TRUE] ELSE runtime[s]
    BY DEF Cancel
  <2>3. CASE Held(s)
    BY <2>1, <2>2, <2>3, CancelledFields
  <2>4. CASE ~Held(s)
    BY <2>1, <2>2, <2>4 DEF SameButCancelled
  <2> QED BY <2>3, <2>4
<1>2. \A d \in Clusters : clusters'[d] = IF d \in C THEN None ELSE clusters[d]
  OBVIOUS
<1>3. TypeOK'
  <2>1. runtime' \in [Runtimes -> Runtime]
    BY <1>1 DEF Cancel
  <2>2. \A s \in Runtimes : (runtime'[s].lastSync # "never") <=> runtime'[s].synced
    <3> TAKE s \in Runtimes
    <3>1. SameButCancelled(runtime[s], runtime'[s])
      BY <1>1
    <3>2. (runtime[s].lastSync # "never") <=> runtime[s].synced
      BY DEF IInv, TypeOK
    <3> QED BY <3>1, <3>2 DEF SameButCancelled
  <2>3. clusters' \in [Clusters -> Runtimes \cup {None}]
    BY DEF IInv, TypeOK
  <2> QED BY <2>1, <2>2, <2>3 DEF IInv, TypeOK
<1>4. InOrder'
  <2>1. \A s \in Runtimes : Held(s) => Used(s)
    BY DEF IInv, NewestIsCurrent
  <2> SUFFICES ASSUME NEW s \in Runtimes
               PROVE  /\ Used(s)' <=> s <= starts'
                      /\ ~Used(s)' => ~runtime'[s].cancelled /\ ~runtime'[s].synced
                      /\ runtime'[s].filled \/ runtime'[s].waiter # "none" => Used(s)'
    BY DEF InOrder
  <2>2. /\ Used(s) <=> s <= starts
        /\ ~Used(s) => ~runtime[s].cancelled /\ ~runtime[s].synced
        /\ runtime[s].filled \/ runtime[s].waiter # "none" => Used(s)
    BY DEF IInv, InOrder
  <2>3. /\ SameButCancelled(runtime[s], runtime'[s])
        /\ runtime'[s].cancelled = IF Held(s) THEN TRUE ELSE runtime[s].cancelled
    BY <1>1
  <2>4. Used(s)' <=> Used(s)
    BY <2>3 DEF Used, SameButCancelled
  <2> QED BY <2>1, <2>2, <2>3, <2>4 DEF SameButCancelled
<1>5. NewestIsCurrent'
  <2> SUFFICES ASSUME NEW d \in Clusters, clusters'[d] # None
               PROVE  /\ runtime'[clusters'[d]].phase # "unused" /\ runtime'[clusters'[d]].cluster = d
                      /\ \A s \in Runtimes : Used(s)' /\ runtime'[s].cluster = d => s <= clusters'[d]
    BY DEF NewestIsCurrent, Used
  <2>1. clusters'[d] = clusters[d] /\ clusters[d] \in Runtimes
    BY <1>2 DEF IInv, TypeOK
  <2>2. /\ Used(clusters[d]) /\ runtime[clusters[d]].cluster = d
        /\ \A s \in Runtimes : Used(s) /\ runtime[s].cluster = d => s <= clusters[d]
    BY <2>1 DEF IInv, NewestIsCurrent
  <2> QED BY <1>1, <2>1, <2>2 DEF Used, SameButCancelled
<1>6. MarkersAreFilled'
  BY <1>1 DEF IInv, MarkersAreFilled, SameButCancelled
<1>7. WrongFlagNeedsReplacement'
  <2> SUFFICES ASSUME NEW s \in Runtimes, runtime'[s].synced, ~runtime'[s].filled
               PROVE  \E q \in Runtimes : /\ q < s /\ runtime'[q].cluster = runtime'[s].cluster
                                          /\ runtime'[q].filled /\ runtime'[q].cancelled
    BY DEF WrongFlagNeedsReplacement
  <2>1. PICK q \in Runtimes : /\ q < s /\ runtime[q].cluster = runtime[s].cluster
                             /\ runtime[q].filled /\ runtime[q].cancelled
    BY <1>1 DEF IInv, WrongFlagNeedsReplacement, SameButCancelled
  <2>2. /\ SameButCancelled(runtime[s], runtime'[s]) /\ SameButCancelled(runtime[q], runtime'[q])
        /\ runtime[q].cancelled => runtime'[q].cancelled
    BY <1>1
  <2> QED BY <2>1, <2>2 DEF SameButCancelled
<1>8. RunsIffCurrent'
  <2> SUFFICES ASSUME NEW s \in Runtimes, runtime'[s].phase # "unused"
               PROVE  (clusters'[runtime'[s].cluster] = s) <=> ~runtime'[s].cancelled
    BY DEF RunsIffCurrent, IsCurrent
  <2>1. runtime'[s].cluster = runtime[s].cluster /\ runtime[s].cluster \in Clusters /\ s # None
    <3>1. runtime[s] \in Runtime /\ s # None
      BY DEF IInv, TypeOK
    <3>2. SameButCancelled(runtime[s], runtime'[s])
      BY <1>1
    <3> QED BY <3>1, <3>2 DEF SameButCancelled, Runtime
  <2>2. (clusters[runtime[s].cluster] = s) <=> ~runtime[s].cancelled
    <3>1. SameButCancelled(runtime[s], runtime'[s])
      BY <1>1
    <3>2. runtime[s].phase # "unused"
      BY <3>1 DEF SameButCancelled
    <3> QED BY <3>2 DEF IInv, RunsIffCurrent, IsCurrent
  <2>3. Held(s) <=> runtime[s].cluster \in C /\ clusters[runtime[s].cluster] = s
    BY <2>1 DEF IInv, NewestIsCurrent
  <2> QED BY <1>1, <1>2, <2>1, <2>2, <2>3
<1> QED BY <1>3, <1>4, <1>5, <1>6, <1>7, <1>8 DEF IInv

\* The waiting goroutine marks: the current runtime is its own, which is
\* filled, or a later one, and then its own has been cancelled.
LEMMA MarkIInv ==
  ASSUME IInv, NEW r \in Runtimes, MarkSynced(r)
  PROVE  IInv'
<1> DEFINE now == clusters[runtime[r].cluster]
<1> USE ConstantsAssumption DEF Runtimes, None
<1>1. runtime[r].cluster \in Clusters /\ Used(r) /\ runtime[r].filled
  BY DEF IInv, TypeOK, Runtime, InOrder, MarkersAreFilled, MarkSynced
<1> DEFINE Now(q) == IF q = now THEN Marked(runtime[q]) ELSE runtime[q]
<1>2. \A s \in Runtimes : /\ runtime'[s] \in Runtime
                          /\ runtime'[s].cluster = runtime[s].cluster
                          /\ runtime'[s].phase = runtime[s].phase
                          /\ runtime'[s].filled = runtime[s].filled
                          /\ runtime'[s].cancelled = runtime[s].cancelled
                          /\ runtime'[s].waiter = IF s = r THEN "done" ELSE runtime[s].waiter
                          /\ runtime'[s].synced = IF s = now THEN TRUE ELSE runtime[s].synced
                          /\ runtime'[s].lastSync = IF s = now THEN "recent" ELSE runtime[s].lastSync
  <2> TAKE s \in Runtimes
  <2>1. /\ Now(s) \in Runtime
        /\ Now(s).cluster = runtime[s].cluster /\ Now(s).phase = runtime[s].phase
        /\ Now(s).filled = runtime[s].filled /\ Now(s).cancelled = runtime[s].cancelled
        /\ Now(s).waiter = runtime[s].waiter
        /\ Now(s).synced = IF s = now THEN TRUE ELSE runtime[s].synced
        /\ Now(s).lastSync = IF s = now THEN "recent" ELSE runtime[s].lastSync
    <3>1. runtime[s] \in Runtime
      BY DEF IInv, TypeOK
    <3>2. CASE s = now
      BY <3>1, <3>2, MarkedFields
    <3>3. CASE s # now
      BY <3>1, <3>3
    <3> QED BY <3>2, <3>3
  <2>2. runtime'[s] = IF s = r THEN [Now(s) EXCEPT !.waiter = "done"] ELSE Now(s)
    BY DEF MarkSynced
  <2> HIDE DEF Now
  <2>3. CASE s = r
    <3>1. runtime'[s] = [Now(s) EXCEPT !.waiter = "done"]
      BY <2>2, <2>3
    <3>2. /\ runtime'[s] \in Runtime /\ runtime'[s].waiter = "done"
          /\ runtime'[s].cluster = Now(s).cluster /\ runtime'[s].phase = Now(s).phase
          /\ runtime'[s].filled = Now(s).filled /\ runtime'[s].cancelled = Now(s).cancelled
          /\ runtime'[s].synced = Now(s).synced /\ runtime'[s].lastSync = Now(s).lastSync
      BY <2>1, <3>1, DoneFields
    <3> QED BY <2>1, <2>3, <3>2
  <2>4. CASE s # r
    BY <2>1, <2>2, <2>4
  <2> QED BY <2>3, <2>4
<1>3. clusters' = clusters /\ starts' = starts
  BY DEF MarkSynced
<1>4. TypeOK'
  <2>1. runtime' \in [Runtimes -> Runtime]
    BY <1>2 DEF MarkSynced
  <2>2. \A s \in Runtimes : (runtime'[s].lastSync # "never") <=> runtime'[s].synced
    <3> TAKE s \in Runtimes
    <3>1. (runtime[s].lastSync # "never") <=> runtime[s].synced
      BY DEF IInv, TypeOK
    <3>2. /\ runtime'[s].synced = IF s = now THEN TRUE ELSE runtime[s].synced
          /\ runtime'[s].lastSync = IF s = now THEN "recent" ELSE runtime[s].lastSync
      BY <1>2
    <3> QED BY <3>1, <3>2
  <2> QED BY <2>1, <2>2 DEF MarkSynced, IInv, TypeOK
<1>5. InOrder'
  <2>1. \A s \in Runtimes : s = now => Used(s)
    BY <1>1 DEF IInv, NewestIsCurrent
  <2>2. \A s \in Runtimes : runtime'[s].waiter # "none" => Used(s)
    BY <1>1, <1>2 DEF IInv, InOrder
  <2> QED BY <1>2, <1>3, <2>1, <2>2 DEF IInv, InOrder, Used
<1>6. NewestIsCurrent' /\ MarkersAreFilled'
  <2>1. ASSUME NEW d \in Clusters, clusters'[d] # None
        PROVE  /\ runtime'[clusters'[d]].phase # "unused" /\ runtime'[clusters'[d]].cluster = d
               /\ \A s \in Runtimes : Used(s)' /\ runtime'[s].cluster = d => s <= clusters'[d]
    <3>1. clusters'[d] = clusters[d] /\ clusters[d] \in Runtimes
      BY <1>3, <2>1 DEF IInv, TypeOK
    <3>2. /\ Used(clusters[d]) /\ runtime[clusters[d]].cluster = d
          /\ \A s \in Runtimes : Used(s) /\ runtime[s].cluster = d => s <= clusters[d]
      BY <3>1 DEF IInv, NewestIsCurrent
    <3>3. \A s \in Runtimes : runtime'[s].cluster = runtime[s].cluster /\ runtime'[s].phase = runtime[s].phase
      BY <1>2
    <3> QED BY <3>1, <3>2, <3>3 DEF Used
  <2>2. NewestIsCurrent'
    BY <2>1 DEF NewestIsCurrent, Used
  <2>3. MarkersAreFilled'
    BY <1>2 DEF IInv, MarkersAreFilled
  <2> QED BY <2>2, <2>3
<1>7. RunsIffCurrent'
  <2> SUFFICES ASSUME NEW s \in Runtimes, runtime'[s].phase # "unused"
               PROVE  (clusters'[runtime'[s].cluster] = s) <=> ~runtime'[s].cancelled
    BY DEF RunsIffCurrent, IsCurrent
  <2>1. /\ runtime'[s].cluster = runtime[s].cluster /\ runtime'[s].phase = runtime[s].phase
        /\ runtime'[s].cancelled = runtime[s].cancelled
    BY <1>2
  <2>2. (clusters[runtime[s].cluster] = s) <=> ~runtime[s].cancelled
    BY <2>1 DEF IInv, RunsIffCurrent, IsCurrent
  <2> QED BY <1>3, <2>1, <2>2
<1>8. WrongFlagNeedsReplacement'
  <2> SUFFICES ASSUME NEW s \in Runtimes, runtime'[s].synced, ~runtime'[s].filled
               PROVE  \E q \in Runtimes : /\ q < s /\ runtime'[q].cluster = runtime'[s].cluster
                                          /\ runtime'[q].filled /\ runtime'[q].cancelled
    BY DEF WrongFlagNeedsReplacement
  <2>1. CASE runtime[s].synced
    BY <1>2, <2>1 DEF IInv, WrongFlagNeedsReplacement
  <2>2. CASE s = now
    <3>1. clusters[runtime[r].cluster] = s /\ s # None
      BY <2>2
    <3>2. runtime[s].cluster = runtime[r].cluster /\ r <= s
      BY <1>1, <3>1 DEF IInv, NewestIsCurrent
    <3>3. s # r
      BY <1>1, <1>2
    <3>4. r < s
      BY <3>2, <3>3
    <3>5. runtime[r].cancelled
      BY <1>1, <3>1, <3>3 DEF IInv, RunsIffCurrent, IsCurrent, Used
    <3>6. /\ runtime'[s].cluster = runtime[s].cluster /\ runtime'[r].cluster = runtime[r].cluster
          /\ runtime'[r].filled = runtime[r].filled /\ runtime'[r].cancelled = runtime[r].cancelled
      BY <1>2
    <3> QED BY <1>1, <3>2, <3>4, <3>5, <3>6
  <2> QED BY <1>2, <2>1, <2>2
<1> QED BY <1>4, <1>5, <1>6, <1>7, <1>8 DEF IInv

\* Steps that change one runtime and neither its place nor its cancellation,
\* and nothing in the map: starting, filling, the end of a wait, time.
LEMMA LocalIInv ==
  ASSUME IInv, NEW r \in Runtimes,
         StartFactory(r) \/ WaitReturns(r) \/ Fill(r) \/ FiveMinutesPass(r)
  PROVE  IInv'
<1> USE ConstantsAssumption DEF Runtimes, None
<1>1. \A s \in Runtimes : /\ runtime'[s].cluster = runtime[s].cluster
                          /\ (Used(s)' <=> Used(s))
                          /\ (runtime'[s].filled \/ runtime'[s].waiter # "none" => Used(s))
                          /\ (runtime[s].filled => runtime'[s].filled)
                          /\ (runtime'[s].waiter = "marking" => runtime'[s].filled)
                          /\ (runtime'[s].synced <=> runtime[s].synced)
                          /\ (runtime'[s].cancelled <=> runtime[s].cancelled)
  BY SMTT(60) DEF StartFactory, WaitReturns, WaitOver, Fill, FiveMinutesPass, IInv, TypeOK, Runtime,
                  InOrder, MarkersAreFilled, Used
<1>2. clusters' = clusters /\ starts' = starts
  BY DEF StartFactory, WaitReturns, Fill, FiveMinutesPass
<1>3. TypeOK'
  <2>1. runtime[r] \in Runtime
    BY DEF IInv, TypeOK
  <2>2. \E x \in Runtime : runtime' = [runtime EXCEPT ![r] = x]
    <3>1. CASE StartFactory(r)
      BY <2>1, <3>1 DEF StartFactory, Runtime
    <3>2. CASE WaitReturns(r)
      BY <2>1, <3>2 DEF WaitReturns, Runtime
    <3>3. CASE Fill(r)
      BY <2>1, <3>3 DEF Fill, Runtime
    <3>4. CASE FiveMinutesPass(r)
      BY <2>1, <3>4 DEF FiveMinutesPass, Runtime
    <3> QED BY <3>1, <3>2, <3>3, <3>4
  <2>3. runtime' \in [Runtimes -> Runtime]
    BY <2>2 DEF IInv, TypeOK
  <2>4. \A s \in Runtimes : (runtime'[s].lastSync # "never") <=> (runtime[s].lastSync # "never")
    BY SMTT(60) DEF StartFactory, WaitReturns, Fill, FiveMinutesPass, IInv, TypeOK, Runtime
  <2>5. \A s \in Runtimes : (runtime'[s].lastSync # "never") <=> runtime'[s].synced
    BY <1>1, <2>4 DEF IInv, TypeOK
  <2> QED BY <2>3, <2>5 DEF StartFactory, WaitReturns, Fill, FiveMinutesPass, IInv, TypeOK
<1>4. InOrder' /\ NewestIsCurrent' /\ MarkersAreFilled'
  BY <1>1, <1>2 DEF IInv, InOrder, NewestIsCurrent, MarkersAreFilled, TypeOK, Used
<1>5. RunsIffCurrent'
  BY <1>1, <1>2 DEF IInv, RunsIffCurrent, IsCurrent, Used
<1>6. WrongFlagNeedsReplacement'
  BY <1>1 DEF IInv, WrongFlagNeedsReplacement
<1> QED BY <1>3, <1>4, <1>5, <1>6 DEF IInv

\* Reads and API servers touch no runtime.
LEMMA QuietIInv ==
  ASSUME IInv, UNCHANGED <<clusters, runtime, starts>>, reachable' \in SUBSET Clusters,
         outages' \in 0..MaxOutages, answer' \in Answer
  PROVE  IInv'
BY DEF IInv, TypeOK, InOrder, NewestIsCurrent, MarkersAreFilled, RunsIffCurrent, WrongFlagNeedsReplacement,
       IsCurrent, Used

\* Every step preserves the invariant.
LEMMA NextIInv == IInv /\ [Next]_vars => IInv'
<1> SUFFICES ASSUME IInv, [Next]_vars PROVE IInv'
  OBVIOUS
<1> USE ConstantsAssumption
<1>1. CASE UNCHANGED vars
  BY <1>1, QuietIInv DEF vars, IInv, TypeOK
<1>2. ASSUME NEW c \in Clusters, StoreRuntime(c) PROVE IInv'
  BY <1>2, StoreIInv
<1>3. ASSUME NEW c \in Clusters, StopForCluster(c) PROVE IInv'
  <2>1. clusters' = [d \in Clusters |-> IF d \in {c} THEN None ELSE clusters[d]]
    BY <1>3 DEF StopForCluster, IInv, TypeOK
  <2>2. runtime' = Cancel({clusters[d] : d \in {c}})
    BY <1>3 DEF StopForCluster, Cancel
  <2> QED BY <1>3, <2>1, <2>2, StopIInv DEF StopForCluster
<1>4. CASE StopAll
  <2>1. clusters' = [d \in Clusters |-> IF d \in Clusters THEN None ELSE clusters[d]]
    BY <1>4 DEF StopAll
  <2> QED BY <1>4, <2>1, StopIInv DEF StopAll
<1>5. ASSUME NEW r \in Runtimes, MarkSynced(r) PROVE IInv'
  BY <1>5, MarkIInv
<1>6. ASSUME NEW r \in Runtimes, StartFactory(r) \/ WaitReturns(r) \/ Fill(r) \/ FiveMinutesPass(r)
      PROVE  IInv'
  BY <1>6, LocalIInv
<1>7. ASSUME NEW c \in Clusters, List(c) \/ Get(c) PROVE IInv'
  <2>1. answer' \in Answer
    <3>1. Failure \in Answer
      BY DEF Failure, NoAnswer, Answer
    <3>2. ASSUME NEW q \in Runtimes, NEW b \in BOOLEAN PROVE Hit(q, b) \in Answer
      BY DEF Hit, Answer, IInv, TypeOK, Runtime
    <3>3. IsStale(runtime[clusters[c]]) \in BOOLEAN
      BY DEF IsStale
    <3>4. clusters[c] # None => clusters[c] \in Runtimes
      BY DEF IInv, TypeOK
    <3>5. CASE List(c)
      BY <3>1, <3>2, <3>3, <3>4, <3>5 DEF List
    <3>6. CASE Get(c)
      BY <3>1, <3>2, <3>4, <3>6 DEF Get
    <3> QED BY <1>7, <3>5, <3>6
  <2> QED BY <1>7, <2>1, QuietIInv DEF List, Get, IInv, TypeOK
<1>8. ASSUME NEW c \in Clusters, Outage(c) \/ Recovery(c) PROVE IInv'
  BY <1>8, QuietIInv DEF Outage, Recovery, IInv, TypeOK
<1> QED BY <1>1, <1>2, <1>3, <1>4, <1>5, <1>6, <1>7, <1>8 DEF Next

\* The inductive invariant holds in every reachable state.
THEOREM Invariant == Spec => []IInv
BY InitIInv, NextIInv, PTL DEF Spec

\* Every reachable state is well typed.
THEOREM TypeCorrect == Spec => []TypeOK
<1>1. IInv => TypeOK
  BY DEF IInv
<1> QED BY <1>1, Invariant, PTL

\* What runs is what the map holds: StopForCluster and StopAll reach it all.
THEOREM NoLeakedWatch == Spec => []RunsIffCurrent
<1>1. IInv => RunsIffCurrent
  BY DEF IInv
<1> QED BY <1>1, Invariant, PTL

\* A flag is wrong only when a filled runtime was replaced before its
\* goroutine took the lock.
THEOREM FlagSafety == Spec => []WrongFlagNeedsReplacement
<1>1. IInv => WrongFlagNeedsReplacement
  BY DEF IInv
<1> QED BY <1>1, Invariant, PTL

-----------------------------------------------------------------------------
(* Webhooks (Hook): edits overlap the dispatch of events.                  *)

EditType == {Hook!Idle} \cup [phase : {"save"}, hook : Hooks, row : HookRows]
DispatchType == [phase : {"none", "new", "listed", "done"}, left : SUBSET Hooks]

HookTypes ==
  /\ hooks \in [Hooks -> HookRows \cup {Hook!Gone}]
  /\ edit \in [Editors -> EditType] /\ edits \in 0..MaxEdits
  /\ event \in [Hook!Events -> Kinds \cup {Hook!NotYet}]
  /\ task \in [Hook!Events -> DispatchType]
  /\ flight \subseteq Hook!Deliveries /\ tried \subseteq Hook!Deliveries
  /\ scope \in [Hook!Events -> SUBSET Hooks]

\* A slot is held by a delivery under way, and only by one.
SlotsAreFreed == IsFiniteSet(flight) /\ Cardinality(flight) <= Slots /\ flight \cap tried = {}

\* The goroutine of an event starts with it; what it has listed and not tried
\* is waiting, what it has tried is not, and all of it was in scope.
DispatchesEvent(n) ==
  /\ task[n].phase = "none" => event[n] = Hook!NotYet
  /\ event[n] = Hook!NotYet => task[n].phase = "none"
  /\ task[n].phase # "listed" => task[n].left = {}
  /\ task[n].left \subseteq scope[n] /\ Hook!Wanted(hooks, event[n]) \subseteq scope[n]

TriedInScope ==
  \A d \in flight \cup tried :
    /\ d[1] \in scope[d[2]] /\ d[1] \notin task[d[2]].left
    /\ task[d[2]].phase \in {"listed", "done"}

HookInv == HookTypes /\ SlotsAreFreed /\ TriedInScope /\ \A n \in Hook!Events : DispatchesEvent(n)

\* A set of webhooks that is not empty has a least.
LEMMA LeastHook ==
  ASSUME NEW S \in SUBSET Hooks, S # {}
  PROVE  Hook!Min(S) \in S
<1> DEFINE R == OpToRel(<, Nat)
<1>1. S \subseteq Nat
  BY WebhooksAssumption DEF Hook!WebhooksAssumption
<1>2. PICK x \in S : \A y \in S : <<y, x>> \notin R
  BY <1>1, NatLessThanWellFounded, WFMin, Zenon
<1>3. \A y \in S : x <= y
  <2>1. R = {ss \in Nat \X Nat : ss[1] < ss[2]}
    BY Zenon DEF OpToRel
  <2> HIDE DEF R
  <2>2. \A y \in S : ~(y < x)
    BY <1>1, <1>2, <2>1
  <2>3. QED
    BY <1>1, <2>2
<1>4. QED
  BY <1>2, <1>3, Zenon DEF Hook!Min

\* The instance counts as this module does.
LEMMA SameCount == \A S : Hook!Cardinality(S) = Cardinality(S) /\ (Hook!IsFiniteSet(S) <=> IsFiniteSet(S))
BY DEF Hook!Cardinality, Cardinality, Hook!IsFiniteSet, IsFiniteSet

LEMMA WantedHooks == ASSUME NEW t, NEW e PROVE Hook!Wanted(t, e) \subseteq Hooks
BY DEF Hook!Wanted

LEMMA HookInit == Hook!Init => HookInv
<1> SUFFICES ASSUME Hook!Init PROVE HookInv
  OBVIOUS
<1>1. HookTypes
  BY WebhooksAssumption DEF Hook!WebhooksAssumption, Hook!Init, HookTypes, EditType, DispatchType
<1>2. SlotsAreFreed
  BY FS_EmptySet, WebhooksAssumption DEF Hook!WebhooksAssumption, Hook!Init, SlotsAreFreed
<1>3. \A n \in Hook!Events : DispatchesEvent(n)
  BY DEF Hook!Init, DispatchesEvent, Hook!Wanted
<1>4. TriedInScope
  BY DEF Hook!Init, TriedInScope
<1>5. QED
  BY <1>1, <1>2, <1>3, <1>4 DEF HookInv

\* An edit of the table widens the scope of the events that it lets match.
LEMMA WriteInv ==
  ASSUME HookInv, NEW table \in [Hooks -> HookRows \cup {Hook!Gone}], Hook!Write(table),
         edit' \in [Editors -> EditType], edits' \in 0..MaxEdits
  PROVE  HookInv'
<1>1. \A n \in Hook!Events : scope'[n] = scope[n] \cup Hook!Wanted(table, event[n])
  BY DEF Hook!Write
<1>2. HookTypes'
  BY WantedHooks DEF Hook!Write, HookInv, HookTypes
<1>3. SlotsAreFreed'
  BY DEF Hook!Write, HookInv, SlotsAreFreed
<1>4. ASSUME NEW n \in Hook!Events PROVE DispatchesEvent(n)'
  <2>1. hooks' = table /\ UNCHANGED <<event, task>>
    BY DEF Hook!Write
  <2>2. Hook!Wanted(hooks, event[n])' = Hook!Wanted(table, event[n])
    BY <2>1 DEF Hook!Wanted, Hook!NotYet, Hook!Matches, Hook!Passes
  <2>3. QED
    BY <1>1, <2>1, <2>2 DEF HookInv, DispatchesEvent
<1>5. TriedInScope'
  BY <1>1 DEF Hook!Write, HookInv, HookTypes, TriedInScope, Hook!Deliveries
<1>6. QED
  BY <1>2, <1>3, <1>4, <1>5 DEF HookInv

LEMMA EditInv ==
  ASSUME HookInv, Hook!Edit \/ \E a \in Editors : Hook!SaveUpdate(a)
  PROVE  HookInv'
<1> USE WebhooksAssumption DEF Hook!WebhooksAssumption
<1>1. \A h \in Hooks, row \in HookRows \cup {Hook!Gone} :
        [hooks EXCEPT ![h] = row] \in [Hooks -> HookRows \cup {Hook!Gone}]
  BY DEF HookInv, HookTypes
<1>2. Hook!CountEdit => edits' \in 0..MaxEdits
  BY DEF Hook!CountEdit, HookInv, HookTypes
<1>3. edit \in [Editors -> EditType] /\ edits \in 0..MaxEdits
  BY DEF HookInv, HookTypes
<1>4. ASSUME NEW h \in Hooks, Hook!Delete(h) PROVE HookInv'
  BY <1>1, <1>2, <1>3, <1>4, WriteInv DEF Hook!Delete
<1>5. ASSUME NEW h \in Hooks, NEW row \in HookRows, Hook!Create(h, row) PROVE HookInv'
  BY <1>1, <1>2, <1>3, <1>5, WriteInv DEF Hook!Create
<1>6. ASSUME NEW h \in Hooks, NEW row \in HookRows, NEW a \in Editors, Hook!BeginUpdate(a, h, row)
      PROVE  HookInv'
  <2>1. edits' \in 0..MaxEdits /\ UNCHANGED <<hooks, event, task, flight, tried, scope>>
    BY <1>2, <1>6 DEF Hook!BeginUpdate
  <2>2. [phase |-> "save", hook |-> h, row |-> row] \in EditType
    BY DEF EditType
  <2>3. edit' \in [Editors -> EditType]
    BY <1>3, <1>6, <2>2 DEF Hook!BeginUpdate
  <2>4. QED
    BY <2>1, <2>3 DEF HookInv, HookTypes, SlotsAreFreed, TriedInScope, DispatchesEvent, Hook!Wanted,
                      Hook!NotYet, Hook!Matches, Hook!Passes
<1>7. ASSUME NEW a \in Editors, Hook!SaveUpdate(a) PROVE HookInv'
  <2>1. edit[a].hook \in Hooks /\ edit[a].row \in HookRows
    BY <1>3, <1>7 DEF Hook!SaveUpdate, EditType
  <2>2. edit' \in [Editors -> EditType] /\ edits' \in 0..MaxEdits
    BY <1>3, <1>7 DEF Hook!SaveUpdate, EditType
  <2>3. QED
    BY <1>1, <1>7, <2>1, <2>2, WriteInv DEF Hook!SaveUpdate
<1>8. QED
  BY <1>4, <1>5, <1>6, <1>7 DEF Hook!Edit

\* Only the goroutine of n has changed, and it is not done before it has
\* tried what it listed.
LEMMA OtherEvents ==
  ASSUME HookInv, NEW n \in Hook!Events, UNCHANGED <<hooks, edit, edits>>, HookTypes',
         \A m \in Hook!Events \ {n} : task'[m] = task[m] /\ event'[m] = event[m] /\ scope'[m] = scope[m],
         SlotsAreFreed', TriedInScope', DispatchesEvent(n)'
  PROVE  HookInv'
<1>1. ASSUME NEW m \in Hook!Events PROVE DispatchesEvent(m)'
  <2>1. CASE m = n
    BY <2>1
  <2>2. CASE m # n
    <3>1. task'[m] = task[m] /\ event'[m] = event[m] /\ scope'[m] = scope[m] /\ hooks' = hooks
      BY <2>2
    <3>2. Hook!Wanted(hooks, event[m])' = Hook!Wanted(hooks, event[m])
      BY <3>1 DEF Hook!Wanted, Hook!NotYet, Hook!Matches, Hook!Passes
    <3>3. QED
      BY <3>1, <3>2 DEF HookInv, DispatchesEvent
  <2>3. QED
    BY <2>1, <2>2
<1>2. QED
  BY <1>1 DEF HookInv

LEMMA HappensInv ==
  ASSUME HookInv, NEW n \in Hook!Events, NEW kind \in Kinds, Hook!Happens(n, kind)
  PROVE  HookInv'
<1> USE WebhooksAssumption DEF Hook!WebhooksAssumption
<1>1. /\ task[n] = [phase |-> "none", left |-> {}]
      /\ \A d \in flight \cup tried : d[2] # n
  <2>1. task[n].phase = "none" /\ task[n].left = {}
    BY DEF Hook!Happens, HookInv, DispatchesEvent
  <2>2. task[n] \in DispatchType
    BY DEF HookInv, HookTypes
  <2>3. QED
    BY <2>1, <2>2 DEF HookInv, TriedInScope, DispatchType
<1>2. /\ task'[n] = [phase |-> "new", left |-> {}] /\ event'[n] = kind
      /\ scope'[n] = Hook!Wanted(hooks, kind)
      /\ \A m \in Hook!Events \ {n} : task'[m] = task[m] /\ event'[m] = event[m] /\ scope'[m] = scope[m]
      /\ UNCHANGED <<hooks, edit, edits, flight, tried>>
  <2>1. [task[n] EXCEPT !.phase = "new"] = [phase |-> "new", left |-> {}]
    BY <1>1
  <2>2. task' = [task EXCEPT ![n] = [task[n] EXCEPT !.phase = "new"]]
    BY DEF Hook!Happens
  <2>3. task' = [task EXCEPT ![n] = [phase |-> "new", left |-> {}]]
    BY <2>1, <2>2
  <2>4. QED
    BY <2>3 DEF Hook!Happens, Hook!hookVars, HookInv, HookTypes
<1>3. HookTypes'
  <2>1. task' \in [Hook!Events -> DispatchType]
    BY <1>1 DEF Hook!Happens, HookInv, HookTypes, DispatchType
  <2>2. event' \in [Hook!Events -> Kinds \cup {Hook!NotYet}] /\ scope' \in [Hook!Events -> SUBSET Hooks]
    BY WantedHooks DEF Hook!Happens, HookInv, HookTypes
  <2>3. QED
    BY <1>2, <2>1, <2>2 DEF HookInv, HookTypes
<1>4. SlotsAreFreed'
  BY <1>2 DEF HookInv, SlotsAreFreed
<1>5. TriedInScope'
  BY <1>1, <1>2 DEF HookInv, HookTypes, TriedInScope, Hook!Deliveries
<1>6. DispatchesEvent(n)'
  <2>1. Hook!Wanted(hooks, event[n])' = Hook!Wanted(hooks, kind)
    BY <1>2 DEF Hook!Wanted, Hook!NotYet, Hook!Matches, Hook!Passes
  <2>2. QED
    BY <1>2, <2>1 DEF DispatchesEvent
<1>7. QED
  BY <1>2, <1>3, <1>4, <1>5, <1>6, OtherEvents

\* What the list may be was in scope when it was read.
LEMMA ListHooksInv ==
  ASSUME HookInv, NEW n \in Hook!Events, Hook!ListHooks(n)
  PROVE  HookInv'
<1>1. PICK left \in {Hook!ListActive(event[n]), {}} :
        task' = [task EXCEPT ![n] = [phase |-> "listed", left |-> left]]
  BY DEF Hook!ListHooks
<1>2. left \subseteq scope[n] /\ left \in SUBSET Hooks
  BY WantedHooks DEF Hook!ListActive, HookInv, DispatchesEvent
<1>3. /\ task'[n] = [phase |-> "listed", left |-> left]
      /\ \A m \in Hook!Events \ {n} : task'[m] = task[m]
      /\ UNCHANGED <<hooks, edit, edits, event, flight, tried, scope>>
  BY <1>1 DEF Hook!ListHooks, Hook!hookVars, HookInv, HookTypes
<1>4. HookTypes' /\ SlotsAreFreed'
  BY <1>1, <1>2, <1>3 DEF HookInv, HookTypes, SlotsAreFreed, DispatchType
<1>5. \A d \in flight \cup tried : d[2] # n
  BY DEF Hook!ListHooks, HookInv, TriedInScope
<1>6. TriedInScope'
  BY <1>3, <1>5 DEF HookInv, HookTypes, TriedInScope, Hook!Deliveries
<1>7. DispatchesEvent(n)'
  <2>1. Hook!Wanted(hooks, event[n])' = Hook!Wanted(hooks, event[n])
    BY <1>3 DEF Hook!Wanted, Hook!NotYet, Hook!Matches, Hook!Passes
  <2>2. event[n] # Hook!NotYet
    BY DEF Hook!ListHooks, HookInv, DispatchesEvent
  <2>3. QED
    BY <1>2, <1>3, <2>1, <2>2 DEF HookInv, DispatchesEvent
<1>8. QED
  BY <1>3, <1>4, <1>6, <1>7, OtherEvents

\* A slot is free, and the hook was not tried for this event before.
LEMMA SpawnInv ==
  ASSUME HookInv, NEW n \in Hook!Events, Hook!Spawn(n)
  PROVE  HookInv'
<1> USE WebhooksAssumption DEF Hook!WebhooksAssumption
<1> DEFINE h == Hook!Min(task[n].left)
<1>1. h \in task[n].left /\ h \in Hooks /\ h \in scope[n]
  <2>1. task[n].left \in SUBSET Hooks /\ task[n].left # {} /\ task[n].left \subseteq scope[n]
    BY DEF Hook!Spawn, HookInv, HookTypes, DispatchType, DispatchesEvent
  <2>2. QED
    BY <2>1, LeastHook
<1>2. /\ flight' = flight \cup {<<h, n>>} /\ task' = [task EXCEPT ![n].left = task[n].left \ {h}]
      /\ task[n].phase = "listed" /\ Cardinality(flight) < Slots
      /\ UNCHANGED <<hooks, edit, edits, event, tried, scope>>
  BY SameCount DEF Hook!Spawn, Hook!hookVars
<1> HIDE DEF h
<1>3. <<h, n>> \notin tried /\ <<h, n>> \notin flight
  BY <1>1 DEF HookInv, TriedInScope
<1>4. /\ task'[n] = [phase |-> "listed", left |-> task[n].left \ {h}]
      /\ \A m \in Hook!Events \ {n} : task'[m] = task[m]
      /\ task' \in [Hook!Events -> DispatchType]
  BY <1>2 DEF HookInv, HookTypes, DispatchType
<1>5. HookTypes'
  BY <1>1, <1>2, <1>4 DEF HookInv, HookTypes, Hook!Deliveries
<1>6. SlotsAreFreed'
  <2>1. IsFiniteSet(flight) /\ Cardinality(flight) \in Nat
    BY FS_CardinalityType DEF HookInv, SlotsAreFreed
  <2>2. IsFiniteSet(flight') /\ Cardinality(flight') = Cardinality(flight) + 1
    BY <1>2, <1>3, <2>1, FS_AddElement
  <2>3. QED
    BY <1>2, <1>3, <2>1, <2>2 DEF HookInv, SlotsAreFreed
<1>7. TriedInScope'
  <2>1. ASSUME NEW d \in flight' \cup tried'
        PROVE  d[1] \in scope'[d[2]] /\ d[1] \notin task'[d[2]].left /\ task'[d[2]].phase \in {"listed", "done"}
    <3>1. CASE d = <<h, n>>
      BY <1>1, <1>2, <1>4, <3>1
    <3>2. CASE d # <<h, n>>
      <4>1. d \in flight \cup tried /\ d[2] \in Hook!Events
        BY <1>2, <3>2 DEF HookInv, HookTypes, Hook!Deliveries
      <4>2. d[1] \in scope[d[2]] /\ d[1] \notin task[d[2]].left /\ task[d[2]].phase \in {"listed", "done"}
        BY <4>1 DEF HookInv, TriedInScope
      <4>3. task'[d[2]].left \subseteq task[d[2]].left /\ task'[d[2]].phase = task[d[2]].phase
        BY <1>2, <1>4, <4>1
      <4>4. QED
        BY <1>2, <4>2, <4>3
    <3>3. QED
      BY <3>1, <3>2
  <2>2. QED
    BY <2>1 DEF TriedInScope
<1>8. DispatchesEvent(n)'
  <2>1. Hook!Wanted(hooks, event[n])' = Hook!Wanted(hooks, event[n])
    BY <1>2 DEF Hook!Wanted, Hook!NotYet, Hook!Matches, Hook!Passes
  <2>2. DispatchesEvent(n)
    BY DEF HookInv
  <2>3. QED
    BY <1>2, <1>4, <2>1, <2>2 DEF DispatchesEvent
<1>9. QED
  BY <1>2, <1>4, <1>5, <1>6, <1>7, <1>8, OtherEvents

LEMMA DispatchedInv ==
  ASSUME HookInv, NEW n \in Hook!Events, Hook!Dispatched(n)
  PROVE  HookInv'
<1>1. /\ task'[n] = [phase |-> "done", left |-> {}] /\ task[n].phase = "listed" /\ task[n].left = {}
      /\ \A m \in Hook!Events \ {n} : task'[m] = task[m]
      /\ task' \in [Hook!Events -> DispatchType]
      /\ UNCHANGED <<hooks, edit, edits, event, flight, tried, scope>>
  BY DEF Hook!Dispatched, Hook!hookVars, HookInv, HookTypes, DispatchType
<1>2. HookTypes' /\ SlotsAreFreed'
  BY <1>1 DEF HookInv, HookTypes, SlotsAreFreed
<1>3. TriedInScope'
  <2>1. \A d \in flight \cup tried : d[2] \in Hook!Events
    BY DEF HookInv, HookTypes, Hook!Deliveries
  <2>2. \A m \in Hook!Events : task'[m].left = task[m].left /\ task[m].phase \in {"listed", "done"} =>
                                 task'[m].phase \in {"listed", "done"}
    BY <1>1
  <2>3. \A m \in Hook!Events : task'[m].left = task[m].left
    BY <1>1
  <2>4. QED
    BY <1>1, <2>1, <2>2, <2>3 DEF HookInv, TriedInScope
<1>4. DispatchesEvent(n)'
  <2>1. Hook!Wanted(hooks, event[n])' = Hook!Wanted(hooks, event[n])
    BY <1>1 DEF Hook!Wanted, Hook!NotYet, Hook!Matches, Hook!Passes
  <2>2. QED
    BY <1>1, <2>1 DEF HookInv, DispatchesEvent
<1>5. QED
  BY <1>1, <1>2, <1>3, <1>4, OtherEvents

LEMMA SendEndsInv ==
  ASSUME HookInv, NEW d \in Hook!Deliveries, Hook!SendEnds(d)
  PROVE  HookInv'
<1>1. /\ flight' = flight \ {d} /\ tried' = tried \cup {d} /\ d \in flight \ tried
      /\ UNCHANGED <<hooks, edit, edits, event, task, scope>>
  BY DEF Hook!SendEnds, Hook!Freed, Hook!hookVars
<1>2. HookTypes' /\ TriedInScope'
  BY <1>1 DEF HookInv, HookTypes, TriedInScope
<1>3. SlotsAreFreed'
  <2>1. IsFiniteSet(flight) /\ Cardinality(flight) \in Nat
    BY FS_CardinalityType DEF HookInv, SlotsAreFreed
  <2>2. IsFiniteSet(flight') /\ Cardinality(flight') = Cardinality(flight) - 1
    BY <1>1, <2>1, FS_RemoveElement
  <2>3. QED
    BY <1>1, <2>1, <2>2, WebhooksAssumption DEF HookInv, SlotsAreFreed, Hook!WebhooksAssumption
<1>4. ASSUME NEW n \in Hook!Events PROVE DispatchesEvent(n)'
  <2>1. Hook!Wanted(hooks, event[n])' = Hook!Wanted(hooks, event[n])
    BY <1>1 DEF Hook!Wanted, Hook!NotYet, Hook!Matches, Hook!Passes
  <2>2. QED
    BY <1>1, <2>1 DEF HookInv, DispatchesEvent
<1>5. QED
  BY <1>2, <1>3, <1>4 DEF HookInv

LEMMA HookStep == HookInv /\ [Hook!Next]_(Hook!vars) => HookInv'
<1> SUFFICES ASSUME HookInv, [Hook!Next]_(Hook!vars) PROVE HookInv'
  OBVIOUS
<1>1. CASE UNCHANGED Hook!vars
  BY <1>1 DEF Hook!vars, HookInv, HookTypes, SlotsAreFreed, TriedInScope, DispatchesEvent, Hook!Wanted,
              Hook!NotYet, Hook!Matches, Hook!Passes
<1>2. QED
  BY <1>1, EditInv, HappensInv, ListHooksInv, SpawnInv, DispatchedInv, SendEndsInv
     DEF Hook!Next, Hook!Dispatch

\* The table, the requests and the goroutines keep their types, and no more
\* deliveries are under way than there are slots.
THEOREM HookTypeCorrect == Hook!Spec => []Hook!TypeOK
<1>1. ASSUME HookInv PROVE Hook!TypeOK
  <2>1. \A a \in Editors : edit[a] = Hook!Idle \/ (edit[a].hook \in Hooks /\ edit[a].row \in HookRows)
    BY <1>1 DEF HookInv, HookTypes, EditType
  <2>2. \A n \in Hook!Events : task[n].phase \in {"none", "new", "listed", "done"} /\ task[n].left \subseteq Hooks
    BY <1>1 DEF HookInv, HookTypes, DispatchType
  <2>3. QED
    BY <1>1, <2>1, <2>2, SameCount DEF HookInv, HookTypes, SlotsAreFreed, Hook!TypeOK
<1>2. QED
  BY <1>1, HookInit, HookStep, PTL DEF Hook!Spec

\* An event is only delivered to webhooks that were active and matched it at
\* some time since it happened.
THEOREM DeliveredInScope == Hook!Spec => []Hook!OnlyInScope
<1>1. HookInv => Hook!OnlyInScope
  BY DEF HookInv, TriedInScope, Hook!OnlyInScope
<1>2. QED
  BY <1>1, HookInit, HookStep, PTL DEF Hook!Spec

\* A webhook is tried once for an event: its slot is given back when the
\* request ends, whatever the answer, and it is not listed again.
THEOREM TriedOnce == Hook!Spec => [](\A d \in tried : d \notin flight /\ d[1] \notin task[d[2]].left)
<1>1. HookInv => \A d \in tried : d \notin flight /\ d[1] \notin task[d[2]].left
  BY DEF HookInv, SlotsAreFreed, TriedInScope
<1>2. QED
  BY <1>1, HookInit, HookStep, PTL DEF Hook!Spec

-----------------------------------------------------------------------------
(* The sum that the runs check: what is proved of a part holds of it.      *)

Cluster == INSTANCE ClusterService_proofs WITH
  reachable <- answering, outages <- clusterOutages, MaxOutages <- MaxClusterOutages

\* The cluster service that was proved about is the one that the sum takes in.
LEMMA SameStart == Service!Init <=> Cluster!Init
BY Zenon DEF Service!Init, Cluster!Init, Service!Down, Cluster!Down, Service!Idle, Cluster!Idle,
   Service!NoRow, Cluster!NoRow, Service!None, Cluster!None, Service!Ids, Cluster!Ids
LEMMA SameSteps == Service!Next <=> Cluster!Next
BY Zenon DEF
   Service!Ids, Service!None, Service!NoRow, Service!Idle, Service!Down, Service!Ok,
   Service!Fault, Service!Succeeds, Service!Fails, Service!Taken, Service!SaveRow,
   Service!Goto, Service!Return, Service!Connect, Service!Watch, Service!NewId,
   Service!AddConnect, Service!Disconnect, Service!Answers, Service!AddProbe,
   Service!AddCreate, Service!StopForCluster, Service!RemoveStop, Service!Remaining,
   Service!RemoveDelete, Service!List, Service!RefreshHealth, Service!InitClusters,
   Service!NextRow, Service!ThenSave, Service!MustConnect, Service!ReconnectFails,
   Service!NeedsStart, Service!ProbeRow, Service!SaveStatus, Service!Crash, Service!Outage,
   Service!Recovery, Service!Refresh, Service!Proceed, Service!Next, Cluster!Ids, Cluster!None,
   Cluster!NoRow, Cluster!Idle, Cluster!Down, Cluster!Ok, Cluster!Fault, Cluster!Succeeds,
   Cluster!Fails, Cluster!Taken, Cluster!SaveRow, Cluster!Goto, Cluster!Return,
   Cluster!Connect, Cluster!Watch, Cluster!NewId, Cluster!AddConnect, Cluster!Disconnect,
   Cluster!Answers, Cluster!AddProbe, Cluster!AddCreate, Cluster!StopForCluster,
   Cluster!RemoveStop, Cluster!Remaining, Cluster!RemoveDelete, Cluster!List,
   Cluster!RefreshHealth, Cluster!InitClusters, Cluster!NextRow, Cluster!ThenSave,
   Cluster!MustConnect, Cluster!ReconnectFails, Cluster!NeedsStart, Cluster!ProbeRow,
   Cluster!SaveStatus, Cluster!Crash, Cluster!Outage, Cluster!Recovery, Cluster!Refresh,
   Cluster!Proceed, Cluster!Next

\* Each part starts as it does alone, and a step of the sum is a step of one
\* part and a stutter of the others.
LEMMA SumStarts == MCInit => Init /\ Service!Init /\ Hook!Init
BY DEF MCInit
LEMMA SumSteps == [MCNext]_all => [Next]_vars /\ [Service!Next]_serviceVars /\ [Hook!Next]_hookVars
BY DEF MCNext, all

\* In the sum, what runs is what the map holds, a flag is wrong in one way
\* only, and an event is delivered to webhooks that were in its scope.
THEOREM WatchesAreSafe == MCSpec => [](RunsIffCurrent /\ WrongFlagNeedsReplacement /\ Hook!OnlyInScope)
<1>1. [Hook!Next]_hookVars => [Hook!Next]_(Hook!vars)
  BY DEF hookVars, Hook!vars
<1>2. MCInit => IInv /\ HookInv
  BY SumStarts, InitIInv, HookInit
<1>3. (IInv /\ HookInv) /\ [MCNext]_all => (IInv /\ HookInv)'
  BY <1>1, SumSteps, NextIInv, HookStep
<1>4. IInv /\ HookInv => RunsIffCurrent /\ WrongFlagNeedsReplacement /\ Hook!OnlyInScope
  BY DEF IInv, HookInv, TriedInScope, Hook!OnlyInScope
<1>5. QED
  BY <1>2, <1>3, <1>4, PTL DEF MCSpec

\* In the sum with one replica, what is connected and watched between jobs is
\* what the table says, and a cluster shown as unhealthy is not watched.
THEOREM SavedIsConnected ==
  ASSUME NEW r, Replicas = {r}
  PROVE  MCSpec => []ConnectedAsSaved
<1>1. Cluster!ConstantsAssumption
  BY ServiceAssumption DEF Service!ConstantsAssumption, Cluster!ConstantsAssumption
<1>2. MCInit => Cluster!Init
  BY SumStarts, SameStart
<1>3. [MCNext]_all => [Cluster!Next]_(Cluster!vars)
  BY SumSteps, SameSteps DEF serviceVars, Cluster!vars
<1>4. MCSpec => Cluster!Spec
  BY <1>2, <1>3, PTL DEF MCSpec, Cluster!Spec
<1>5. Cluster!Spec => []Cluster!ConnectedAsSaved
  BY <1>1, Cluster!OneReplicaAgrees
<1>6. Cluster!ConnectedAsSaved => ConnectedAsSaved
  BY DEF Cluster!ConnectedAsSaved, ConnectedAsSaved, Service!ConnectedAsSaved, Cluster!None, Service!None
<1>7. QED
  BY <1>4, <1>5, <1>6, PTL
=============================================================================
