-------------------------- MODULE Resources_proofs --------------------------
(***************************************************************************)
(* Proofs about the objects of a cluster (Objects, an instance of          *)
(* Resources, in MCRequests), for any clients, names, values, batches and  *)
(* bounds.                                                                 *)
(*                                                                         *)
(* What a call to the API server may have done (SoundOutcome), and which   *)
(* settings it leaves alone (Spares), is stated once for every kind of     *)
(* call.  A request then loses no update if its calls spare what it does   *)
(* not mean to set; only an update with a version changes more, and it     *)
(* found the object as its author had read it.                             *)
(***************************************************************************)
EXTENDS MCRequests, TLAPS, FiniteSetTheorems, SequenceTheorems, WellFoundedInduction

Manifests == [Objects!Settings -> Nat]
Templates == [Objects!TemplateSettings -> Nat]
ObjectType == [name : Objects!Names, uid : Nat \ {0}, version : Nat \ {0}, spec : Manifests,
               revision : Nat, managed : BOOLEAN]
ReplicaSetType == [owner : Nat, revision : Nat \ {0}, template : Templates]

\* A request has answered the items before next, each of them truthfully, and
\* means to set what its handler says.
GoodRequest(r) ==
  /\ r \in [op : {r.op}, items : Seq(Objects!Names), step : {r.step}, read : {r.read},
            revision : {r.revision}, target : {r.target}, written : {r.written},
            named : {r.named}, base : {r.base}, next : Nat \ {0}, results : Seq(BOOLEAN), done : Seq(Nat)]
  /\ r.next <= Len(r.items) + 1
  /\ Len(r.results) = r.next - 1 /\ Len(r.done) = r.next - 1
  /\ \A i \in 1..Len(r.results) : r.results[i] => r.done[i] > 0
  /\ r.op = "get" => r.read \in ObjectType
  /\ r.op = "restart" => r.named = {"stamp"}
  /\ r.op = "rollback" => r.named = Objects!TemplateSettings
  /\ r.op = "rollback" /\ r.step = "patch" => r.target \in Templates

\* A version is a moment of the cluster that has passed.
Stored(o) == o \in ObjectType /\ o.version <= version /\ o.uid <= o.version

ObjectsInv ==
  /\ version \in 1..MaxVersion /\ clock \in 1..MaxClock /\ clusterExists \in BOOLEAN
  /\ DOMAIN objects = Objects!Names /\ objects = [n \in Objects!Names |-> objects[n]]
  /\ \A n \in Objects!Names : objects[n] = Objects!Absent \/ Stored(objects[n])
  /\ cache = [n \in Objects!Names |-> cache[n]]
  /\ \A n \in Objects!Names : cache[n] = Objects!Absent \/ Stored(cache[n])
  /\ sets \subseteq ReplicaSetType /\ \A rs \in sets : rs.revision <= MaxRevision
  /\ ask = [c \in Clients |-> ask[c]]
  /\ \A c \in Clients : GoodRequest(ask[c])

\* What a call to the API server may have done: nothing, or one object is gone,
\* new, or has the version after the last.
Newest(o) == o \in ObjectType /\ o.version = version + 1 /\ o.uid <= version + 1
SoundOutcome(o) ==
  /\ o.version = version \/ (o.version = version + 1 /\ version < MaxVersion)
  /\ o.objects = [n \in Objects!Names |-> o.objects[n]]
  /\ \A n \in Objects!Names :
       \/ o.objects[n] = objects[n] \/ o.objects[n] = Objects!Absent
       \/ Newest(o.objects[n]) /\ o.version = version + 1
  /\ o.applied \in BOOLEAN /\ o.answer \in BOOLEAN /\ (o.answer => o.applied)

\* The call changes settings in S only.
Spares(o, S) == \A n \in Objects!Names :
  objects[n] # Objects!Absent /\ o.objects[n] # Objects!Absent =>
    \A s \in Objects!Settings \ S : o.objects[n].spec[s] = objects[n].spec[s]

\* A set of bounded numbers has a largest.
LEMMA LargestOf ==
  ASSUME NEW m \in Nat, NEW T, T \subseteq 0..m, T # {}
  PROVE  \E x \in T : \A y \in T : y <= x
<1> DEFINE D == {m - y : y \in T}
<1>1. D \subseteq Nat /\ D # {}
  <2>1. \A y \in T : m - y \in Nat /\ m - y \in D
    OBVIOUS
  <2>2. PICK y \in T : TRUE
    OBVIOUS
  <2>3. D \subseteq Nat
    BY <2>1
  <2>4. m - y \in D
    BY <2>1
  <2> HIDE DEF D
  <2>5. QED
    BY <2>3, <2>4
<1> DEFINE R == OpToRel(<, Nat)
<1>2. PICK d \in D : \A e \in D : <<e, d>> \notin R
  BY <1>1, NatLessThanWellFounded, WFMin, Zenon
<1>3. \A e \in D : ~(e < d)
  <2>1. R = {ss \in Nat \X Nat : ss[1] < ss[2]}
    BY Zenon DEF OpToRel
  <2> HIDE DEF R
  <2>2. QED
    BY <1>1, <1>2, <2>1
<1>4. PICK x \in T : d = m - x
  OBVIOUS
<1>5. ASSUME NEW y \in T PROVE y <= x
  <2>1. m - y \in D
    OBVIOUS
  <2>2. ~(m - y < m - x)
    BY <1>3, <1>4, <2>1
  <2>3. QED
    BY <2>2
<1>6. QED
  BY <1>5

\* No object is the absent one.
LEMMA AbsentDiffers == Objects!Absent \notin ObjectType
<1>1. SUFFICES ASSUME Objects!Absent \in ObjectType PROVE FALSE
  OBVIOUS
<1>2. Objects!Absent.uid = 0
  BY DEF Objects!Absent
<1>3. QED
  BY <1>1, <1>2 DEF ObjectType

\* What the API server applies to one object.
LEMMA AppliedSound ==
  ASSUME ObjectsInv, NEW n \in Objects!Names, NEW object, object = objects[n] \/ object = Objects!Absent \/ Newest(object),
         version < MaxVersion, NEW o \in Objects!Applied(n, object)
  PROVE  SoundOutcome(o) /\ o.objects = [objects EXCEPT ![n] = object]
<1>1. CASE object = objects[n]
  <2>0. o = [objects |-> objects, version |-> version, applied |-> TRUE, answer |-> TRUE]
    BY <1>1, Zenon DEF Objects!Applied
  <2>1. /\ o.objects = objects /\ o.version = version /\ o.applied = TRUE /\ o.answer = TRUE
    BY <2>0, Zenon
  <2>2. QED
    BY <1>1, <2>1 DEF SoundOutcome, ObjectsInv
<1>2. CASE object # objects[n]
  <2>1. PICK heard \in BOOLEAN : o = [objects |-> [objects EXCEPT ![n] = object], version |-> version + 1,
                                      applied |-> TRUE, answer |-> heard]
    BY <1>2, Zenon DEF Objects!Applied
  <2>2. o.objects = [objects EXCEPT ![n] = object] /\ o.version = version + 1 /\ o.applied = TRUE /\ o.answer = heard
    BY <2>1, Zenon
  <2>3. \A m \in Objects!Names : o.objects[m] = objects[m] \/ o.objects[m] = object
    BY <2>2 DEF ObjectsInv
  <2>4. o.objects = [m \in Objects!Names |-> o.objects[m]]
    BY <2>2 DEF ObjectsInv
  <2>5. o.applied \in BOOLEAN /\ o.answer \in BOOLEAN /\ (o.answer => o.applied)
    BY <2>2
  <2>6. QED
    BY <1>2, <2>2, <2>3, <2>4, <2>5 DEF SoundOutcome
<1>3. QED
  BY <1>1, <1>2

\* What it refuses.
LEMMA RejectedSound ==
  ASSUME ObjectsInv, NEW o \in Objects!Rejected, NEW S
  PROVE  SoundOutcome(o) /\ Spares(o, S) /\ o.objects = objects
<1>1. o = [objects |-> objects, version |-> version, applied |-> FALSE, answer |-> FALSE]
  BY DEF Objects!Rejected
<1>2. o.objects = objects /\ o.version = version /\ o.applied = FALSE /\ o.answer = FALSE
  BY <1>1, Zenon
<1>3. QED
  BY <1>2 DEF SoundOutcome, Spares, ObjectsInv

\* A change has the wanted manifest, under a new version if it is another one.
LEMMA ChangedIs ==
  ASSUME ObjectsInv, NEW n \in Objects!Names, Objects!Live(n), NEW spec \in Manifests, version < MaxVersion
  PROVE  /\ Objects!Changed(n, spec) = objects[n] \/ Newest(Objects!Changed(n, spec))
         /\ Objects!Changed(n, spec).spec = spec
<1>1. objects[n] \in ObjectType /\ objects[n].uid <= version /\ version \in Nat
  BY DEF ObjectsInv, Objects!Live, Stored, ObjectType
<1>2. CASE spec = objects[n].spec
  BY <1>2 DEF Objects!Changed
<1>3. CASE spec # objects[n].spec
  <2> DEFINE x == objects[n]  y == Objects!Changed(n, spec)
  <2>1. y = [x EXCEPT !.spec = spec, !.version = version + 1]
    BY <1>3 DEF Objects!Changed
  <2> HIDE DEF x, y
  <2>2. y \in ObjectType /\ y.spec = spec /\ y.version = version + 1 /\ y.uid = x.uid
    <3> DEFINE z == [x EXCEPT !.spec = spec]
               w == [z EXCEPT !.version = version + 1]
    <3>1. x \in ObjectType /\ version \in Nat /\ version + 1 \in Nat \ {0}
      BY <1>1 DEF x
    <3>2. z \in ObjectType /\ z.spec = spec /\ z.uid = x.uid
      BY <3>1 DEF ObjectType
    <3>3. y = w
      BY <2>1, Zenon
    <3> HIDE DEF z
    <3>4. w \in ObjectType /\ w.spec = z.spec /\ w.uid = z.uid /\ w.version = version + 1
      BY <3>1, <3>2 DEF ObjectType
    <3> HIDE DEF w
    <3>5. QED
      BY <3>2, <3>3, <3>4
  <2>3. Newest(y)
    BY <1>1, <2>2 DEF Newest, ObjectType, x
  <2>4. QED
    BY <2>2, <2>3 DEF y
<1>4. QED
  BY <1>2, <1>3

\* One object changes settings in S.
LEMMA ChangeSound ==
  ASSUME ObjectsInv, NEW n \in Objects!Names, Objects!Live(n), NEW spec \in Manifests, version < MaxVersion,
         NEW S, \A s \in Objects!Settings \ S : spec[s] = objects[n].spec[s],
         NEW o \in Objects!Applied(n, Objects!Changed(n, spec))
  PROVE  SoundOutcome(o) /\ Spares(o, S) /\ \A m \in Objects!Names : m # n => o.objects[m] = objects[m]
<1> DEFINE object == Objects!Changed(n, spec)
<1>1. (object = objects[n] \/ Newest(object)) /\ object.spec = spec
  BY ChangedIs
<1> HIDE DEF object
<1>2. SoundOutcome(o) /\ o.objects = [objects EXCEPT ![n] = object]
  BY <1>1, AppliedSound DEF object
<1>3. o.objects[n] = object /\ \A m \in Objects!Names : m # n => o.objects[m] = objects[m]
  BY <1>2 DEF ObjectsInv
<1>4. Spares(o, S)
  BY <1>1, <1>3 DEF Spares
<1>5. QED
  BY <1>2, <1>3, <1>4

\* A call has an effect only if its condition holds and the bound allows it.
LEMMA WhenIs ==
  ASSUME NEW condition, NEW outcomes, NEW o \in Objects!When(condition, outcomes)
  PROVE  o \in Objects!Rejected \/ (condition /\ version < MaxVersion /\ o \in outcomes)
<1>1. CASE condition /\ version < MaxVersion
  BY <1>1, Zenon DEF Objects!When
<1>2. CASE ~(condition /\ version < MaxVersion)
  BY <1>2, Zenon DEF Objects!When
<1>3. QED
  BY <1>1, <1>2, Zenon

\* A patch changes the settings it gives values to and no other.
LEMMA PatchSound ==
  ASSUME ObjectsInv, NEW n \in Objects!Names, NEW patch, NEW S, DOMAIN patch \subseteq S,
         \A s \in DOMAIN patch : patch[s] \in Nat, NEW o \in Objects!PatchCall(n, patch)
  PROVE  SoundOutcome(o) /\ Spares(o, S)
<1> DEFINE spec == Objects!Merged(patch, objects[n].spec)
<1>1. CASE o \in Objects!Rejected
  BY <1>1, RejectedSound
<1>2. CASE Objects!Live(n) /\ version < MaxVersion /\ o \in Objects!Applied(n, Objects!Changed(n, spec))
  <2>1. objects[n].spec \in Manifests
    BY <1>2 DEF ObjectsInv, Stored, ObjectType, Objects!Live
  <2>2. spec \in Manifests /\ \A s \in Objects!Settings \ S : spec[s] = objects[n].spec[s]
    BY <2>1 DEF Manifests, Objects!Merged
  <2> HIDE DEF spec
  <2>3. QED
    BY <1>2, <2>2, ChangeSound
<1>3. QED
  BY <1>1, <1>2, WhenIs DEF Objects!PatchCall

\* A patch of one setting.
LEMMA OnlyIs ==
  ASSUME NEW s \in Objects!Settings, NEW v \in Nat
  PROVE  DOMAIN Objects!Only(s, v) \subseteq {s} /\ \A x \in DOMAIN Objects!Only(s, v) : Objects!Only(s, v)[x] \in Nat
BY DEF Objects!Only

\* A deletion leaves no manifest to change.
LEMMA DeleteSound ==
  ASSUME ObjectsInv, NEW n \in Objects!Names, NEW S, NEW o \in Objects!DeleteCall(n)
  PROVE  SoundOutcome(o) /\ Spares(o, S)
<1>1. CASE o \in Objects!Rejected
  BY <1>1, RejectedSound
<1>2. CASE version < MaxVersion /\ o \in Objects!Applied(n, Objects!Absent)
  <2>1. SoundOutcome(o) /\ o.objects = [objects EXCEPT ![n] = Objects!Absent]
    BY <1>2, AppliedSound
  <2>2. \A m \in Objects!Names : o.objects[m] = objects[m] \/ o.objects[m] = Objects!Absent
    BY <2>1 DEF ObjectsInv
  <2>3. QED
    BY <2>1, <2>2 DEF Spares
<1>3. QED
  BY <1>1, <1>2, WhenIs DEF Objects!DeleteCall

\* A new object has the version after the last.
LEMMA NewStored ==
  ASSUME ObjectsInv, NEW n \in Objects!Names, NEW spec \in Manifests, NEW managed \in BOOLEAN
  PROVE  Newest(Objects!New(n, spec, managed))
BY DEF ObjectsInv, Objects!New, Newest, ObjectType

\* A creation finds no object whose settings it could change.
LEMMA CreateSound ==
  ASSUME ObjectsInv, NEW n \in Objects!Names, NEW spec \in Manifests, NEW S, NEW o \in Objects!CreateCall(n, spec)
  PROVE  SoundOutcome(o) /\ Spares(o, S)
<1>1. CASE o \in Objects!Rejected
  BY <1>1, RejectedSound
<1>2. ASSUME ~Objects!Live(n), version < MaxVersion, o \in Objects!Applied(n, Objects!New(n, spec, FALSE))
      PROVE  SoundOutcome(o) /\ Spares(o, S)
  <2> DEFINE object == Objects!New(n, spec, FALSE)
  <2>0. PICK no \in BOOLEAN : no = FALSE
    OBVIOUS
  <2>1. Newest(object)
    <3>1. Newest(Objects!New(n, spec, no))
      BY NewStored
    <3>2. QED
      BY <2>0, <3>1, Zenon
  <2> HIDE DEF object
  <2>2. SoundOutcome(o) /\ o.objects = [objects EXCEPT ![n] = object]
    BY <1>2, <2>1, AppliedSound DEF object
  <2>3. \A m \in Objects!Names : m # n => o.objects[m] = objects[m]
    BY <2>2 DEF ObjectsInv
  <2>4. QED
    BY <1>2, <2>2, <2>3 DEF Spares, Objects!Live
<1>3. QED
  BY <1>1, <1>2, WhenIs DEF Objects!CreateCall

\* An update that names a version finds the object as it was then.
LEMMA UpdateSound ==
  ASSUME ObjectsInv, NEW n \in Objects!Names, NEW body, body.spec \in Manifests, body.version \in Nat,
         NEW o \in Objects!UpdateCall(n, body)
  PROVE  /\ SoundOutcome(o) /\ Spares(o, Objects!Settings)
         /\ \A m \in Objects!Names : o.objects[m] = objects[m] \/ (m = n /\ body.version \in {0, objects[m].version})
<1>1. CASE o \in Objects!Rejected
  BY <1>1, RejectedSound
<1>2. CASE /\ Objects!Live(n) /\ body.version \in {0, objects[n].version} /\ version < MaxVersion
           /\ o \in Objects!Applied(n, Objects!Changed(n, body.spec))
  <2> DEFINE spec == body.spec
  <2>1. \A s \in Objects!Settings \ Objects!Settings : spec[s] = objects[n].spec[s]
    OBVIOUS
  <2>2. spec \in Manifests
    OBVIOUS
  <2>3. Objects!Live(n) /\ version < MaxVersion /\ o \in Objects!Applied(n, Objects!Changed(n, spec))
    BY <1>2
  <2> HIDE DEF spec
  <2>4. SoundOutcome(o) /\ Spares(o, Objects!Settings) /\ \A m \in Objects!Names : m # n => o.objects[m] = objects[m]
    BY <2>1, <2>2, <2>3, ChangeSound
  <2>5. QED
    BY <1>2, <2>4
<1>3. QED
  BY <1>1, <1>2, WhenIs DEF Objects!UpdateCall

\* A call of an unknown cluster is refused.
LEMMA KnownIs ==
  ASSUME NEW outcomes, NEW o \in Objects!IfKnown(outcomes)
  PROVE  o \in outcomes \/ o \in Objects!Rejected
BY DEF Objects!IfKnown

\* An item is answered truthfully, and the request goes on with the next.
LEMMA AnswerGood ==
  ASSUME NEW r, GoodRequest(r), r.next <= Len(r.items), r.op # "get", NEW o,
         o.version \in Nat \ {0}, o.applied \in BOOLEAN, o.answer \in BOOLEAN, o.answer => o.applied
  PROVE  /\ GoodRequest(Objects!Answer(r, o)) /\ Objects!Answer(r, o).op = r.op
         /\ Objects!Answer(r, o).named = r.named /\ Objects!Answer(r, o).base = r.base
<1> DEFINE a == Objects!Answer(r, o)  d == IF o.applied THEN o.version ELSE 0
           s == Objects!Settled(r, o)
<1>1. d \in Nat /\ (o.answer => d > 0)
  <2>1. CASE o.applied
    <3>1. d = o.version
      BY <2>1, Zenon
    <3> HIDE DEF d
    <3>2. QED
      BY <3>1
  <2>2. CASE ~o.applied
    <3>1. d = 0 /\ ~o.answer
      BY <2>2, Zenon
    <3> HIDE DEF d
    <3>2. QED
      BY <3>1
  <2>3. QED
    BY <2>1, <2>2
<1> HIDE DEF d
<1>2. r.next \in Nat \ {0} /\ r.results \in Seq(BOOLEAN) /\ r.done \in Seq(Nat) /\ r.items \in Seq(Objects!Names)
  BY DEF GoodRequest
<1>3. /\ s.op = r.op /\ s.items = r.items /\ s.step = "item" /\ s.next = r.next + 1 /\ s.results = r.results
      /\ s.done = Append(r.done, d) /\ s.named = r.named /\ s.base = r.base
      /\ s \in [op : {s.op}, items : {s.items}, step : {s.step}, read : {s.read},
            revision : {s.revision}, target : {s.target}, written : {s.written},
            named : {s.named}, base : {s.base}, next : {s.next}, results : {s.results}, done : {s.done}]
  BY DEF GoodRequest, Objects!Settled, d
<1>4. PICK b \in BOOLEAN : b = o.answer
  OBVIOUS
<1>5. a = [s EXCEPT !.results = Append(@, b)]
  BY <1>4 DEF Objects!Answer
<1> HIDE DEF s
<1>6. /\ a.op = s.op /\ a.items = s.items /\ a.step = s.step /\ a.next = s.next
      /\ a.results = Append(s.results, b)
      /\ a.done = s.done /\ a.named = s.named /\ a.base = s.base
      /\ a \in [op : {a.op}, items : {a.items}, step : {a.step}, read : {a.read},
            revision : {a.revision}, target : {a.target}, written : {a.written},
            named : {a.named}, base : {a.base}, next : {a.next}, results : {a.results}, done : {a.done}]
  BY <1>3, <1>5
<1> HIDE DEF a
<1>7. a.results \in Seq(BOOLEAN) /\ a.done \in Seq(Nat) /\ a.next \in Nat \ {0}
  BY <1>1, <1>2, <1>3, <1>6, AppendProperties
<1>8. /\ Len(r.results) \in Nat /\ Len(r.done) \in Nat /\ Len(r.items) \in Nat
      /\ Len(a.results) = Len(r.results) + 1 /\ Len(a.done) = Len(r.done) + 1
  BY <1>1, <1>2, <1>3, <1>6, AppendProperties, LenProperties
<1>9. ASSUME NEW i \in 1..Len(a.results), a.results[i] PROVE a.done[i] > 0
  <2>1. CASE i \in 1..Len(r.results)
    <3>1. Len(r.done) = Len(r.results)
      BY <1>2, LenProperties DEF GoodRequest
    <3>2. a.results = Append(r.results, b) /\ a.done = Append(r.done, d)
      BY <1>3, <1>6
    <3>3. a.results[i] = r.results[i]
      BY <1>2, <2>1, <3>2, AppendProperties
    <3>4. a.done[i] = r.done[i]
      BY <1>1, <1>2, <2>1, <3>1, <3>2, AppendProperties
    <3>5. QED
      BY <1>9, <2>1, <3>3, <3>4 DEF GoodRequest
  <2>2. CASE i = Len(r.results) + 1
    <3>1. Len(r.done) = Len(r.results)
      BY <1>2, LenProperties DEF GoodRequest
    <3>2. a.results = Append(r.results, b) /\ a.done = Append(r.done, d)
      BY <1>3, <1>6
    <3>3. a.results[i] = b
      BY <1>2, <2>2, <3>2, AppendProperties
    <3>4. a.done[i] = d
      BY <1>1, <1>2, <2>2, <3>1, <3>2, AppendProperties
    <3>5. QED
      BY <1>1, <1>4, <1>9, <3>3, <3>4
  <2>3. QED
    BY <1>8, <2>1, <2>2
<1>10. GoodRequest(a)
  <2>1. a \in [op : {a.op}, items : Seq(Objects!Names), step : {a.step}, read : {a.read},
               revision : {a.revision}, target : {a.target}, written : {a.written}, named : {a.named},
               base : {a.base}, next : Nat \ {0}, results : Seq(BOOLEAN), done : Seq(Nat)]
    BY <1>2, <1>3, <1>6, <1>7
  <2>2. a.next <= Len(a.items) + 1 /\ Len(a.results) = a.next - 1 /\ Len(a.done) = a.next - 1
    BY <1>2, <1>3, <1>6, <1>8 DEF GoodRequest
  <2>3. a.op # "get" /\ a.step = "item" /\ (a.op = "restart" => a.named = {"stamp"})
        /\ (a.op = "rollback" => a.named = Objects!TemplateSettings)
    BY <1>3, <1>6 DEF GoodRequest
  <2>4. QED
    BY <1>9, <2>1, <2>2, <2>3 DEF GoodRequest
<1>11. QED
  BY <1>3, <1>6, <1>10 DEF a

\* Every request has the fields of the first.
Shape(r) ==
  r \in [op : {r.op}, items : {r.items}, step : {r.step}, read : {r.read}, revision : {r.revision},
         target : {r.target}, written : {r.written}, named : {r.named}, base : {r.base},
         next : {r.next}, results : {r.results}, done : {r.done}]

\* A request that has answered nothing yet.
Fresh(r) ==
  Shape(r) /\ r.step = "item" /\ r.next = 1 /\ r.results = <<>> /\ r.done = <<>>

\* The request at first.
LEMMA NoRequestFresh ==
  /\ Fresh(Objects!NoRequest) /\ Objects!NoRequest.op = "none" /\ Objects!NoRequest.items = <<>>
  /\ Objects!NoRequest.named = {} /\ Objects!NoRequest.base = 0
BY DEF Fresh, Shape, Objects!NoRequest

\* A request that has answered nothing satisfies GoodRequest.
LEMMA FreshGood ==
  ASSUME NEW r, Fresh(r), r.items \in Seq(Objects!Names),
         r.op = "get" => r.read \in ObjectType, r.op = "restart" => r.named = {"stamp"},
         r.op = "rollback" => r.named = Objects!TemplateSettings
  PROVE  GoodRequest(r)
<1>2. <<>> \in Seq(BOOLEAN) /\ <<>> \in Seq(Nat) /\ Len(<<>>) = 0 /\ Len(r.items) \in Nat
  BY LenProperties
<1>3. r \in [op : {r.op}, items : Seq(Objects!Names), step : {r.step}, read : {r.read},
             revision : {r.revision}, target : {r.target}, written : {r.written}, named : {r.named},
             base : {r.base}, next : Nat \ {0}, results : Seq(BOOLEAN), done : Seq(Nat)]
  <2>1. r.next \in Nat \ {0} /\ r.results \in Seq(BOOLEAN) /\ r.done \in Seq(Nat)
    BY <1>2 DEF Fresh
  <2>2. QED
    BY <2>1 DEF Fresh, Shape
<1>4. /\ r.next <= Len(r.items) + 1 /\ Len(r.results) = r.next - 1 /\ Len(r.done) = r.next - 1
      /\ \A i \in 1..Len(r.results) : r.results[i] => r.done[i] > 0
  BY <1>2 DEF Fresh
<1>5. QED
  BY <1>3, <1>4 DEF GoodRequest, Fresh

\* A handler's single call, and the requests that read.
LEMMA AskedFresh ==
  ASSUME NEW operation, NEW n, NEW named, NEW base, NEW r, r = Objects!Asked(operation, n, named, base)
  PROVE  Fresh(r) /\ r.op = operation /\ r.items = <<n>> /\ r.named = named /\ r.base = base
<1> DEFINE N == Objects!NoRequest
<1>1. r = [N EXCEPT !.op = operation, !.items = <<n>>, !.named = named, !.base = base]
  BY DEF Objects!Asked
<1>2. Fresh(N)
  BY NoRequestFresh
<1> HIDE DEF N
<1>3. QED
  BY <1>1, <1>2 DEF Fresh, Shape

\* So does the request of a handler with a single call.
LEMMA AskedGood ==
  ASSUME NEW operation, NEW n \in Objects!Names, NEW named, NEW base, operation \notin {"get", "restart"},
         operation = "rollback" => named = Objects!TemplateSettings,
         NEW r, r = Objects!Asked(operation, n, named, base)
  PROVE  GoodRequest(r) /\ r.op = operation /\ r.named = named /\ r.base = base /\ r.next <= Len(r.items)
<1>1. Fresh(r) /\ r.op = operation /\ r.items = <<n>> /\ r.named = named /\ r.base = base
  BY AskedFresh
<1>2. r.items \in Seq(Objects!Names) /\ Len(r.items) = 1 /\ r.next = 1
  BY <1>1 DEF Fresh
<1>3. GoodRequest(r)
  BY <1>1, <1>2, FreshGood
<1>4. QED
  BY <1>1, <1>2, <1>3

\* The next call of a request that goes on.
LEMMA GoesOn ==
  ASSUME NEW r, GoodRequest(r), r.op # "get", NEW object, NEW target,
         NEW x, \/ x = [r EXCEPT !.step = "list", !.read = object]
                \/ x = [r EXCEPT !.step = "delete", !.read = object]
                \/ x = [r EXCEPT !.step = "patch", !.target = target] /\ target \in Templates
                \/ x = [r EXCEPT !.written = target]
  PROVE  GoodRequest(x) /\ x.op = r.op /\ x.named = r.named /\ x.base = r.base
<1>1. /\ x.op = r.op /\ x.items = r.items /\ x.next = r.next /\ x.results = r.results
      /\ x.done = r.done /\ x.named = r.named /\ x.base = r.base
      /\ x.step = "patch" => (x.target = r.target /\ r.step = "patch") \/ x.target \in Templates
      /\ x \in [op : {x.op}, items : {x.items}, step : {x.step}, read : {x.read},
            revision : {x.revision}, target : {x.target}, written : {x.written},
            named : {x.named}, base : {x.base}, next : {x.next}, results : {x.results}, done : {x.done}]
  BY DEF GoodRequest
<1>2. QED
  BY <1>1 DEF GoodRequest

-----------------------------------------------------------------------------
\* Whoever's request is answered knew of the settings that changed.
Seen(c) == \A n \in Objects!Names, s \in Objects!Settings :
  (objects[n] # Objects!Absent /\ objects'[n] # Objects!Absent /\ objects[n].spec[s] # objects'[n].spec[s])
  => s \in ask'[c].named \/ ask'[c].base = objects[n].version
NoneLost == \A c \in Clients : ask'[c] # ask[c] => Seen(c)

\* What was stored stays no later than the cluster's version.
LEMMA StoredStays ==
  ASSUME ObjectsInv, version' \in Nat, version' >= version, NEW x, Stored(x)
  PROVE  x \in ObjectType /\ x.version <= version' /\ x.uid <= x.version
BY DEF Stored, ObjectsInv, ObjectType

\* A client's call preserves the invariant, and overwrites nothing unless the
\* client's own request does.
LEMMA TakenOK ==
  ASSUME ObjectsInv, NEW c \in Clients, NEW r, GoodRequest(r), NEW o, SoundOutcome(o),
         ask' = [ask EXCEPT ![c] = r], Objects!Take(o), Objects!Quiet
  PROVE  ObjectsInv' /\ (Seen(c) => NoneLost)
<1>1. /\ objects' = o.objects /\ version' = o.version
      /\ UNCHANGED <<sets, cache, clusterExists, clock>>
  BY DEF Objects!Take, Objects!Quiet
<1>2. version \in Nat /\ version' \in Nat /\ version' >= version /\ version' \in 1..MaxVersion
  BY <1>1, ResourcesAssumption DEF SoundOutcome, ObjectsInv, Objects!ResourcesAssumption
<1>3. /\ objects' = [n \in Objects!Names |-> objects'[n]]
      /\ \A n \in Objects!Names : objects'[n] = Objects!Absent \/ Stored(objects[n])'
  <2>1. ASSUME NEW n \in Objects!Names PROVE objects'[n] = Objects!Absent \/ Stored(objects[n])'
    <3>1. CASE objects'[n] = objects[n]
      BY <1>2, <3>1, StoredStays DEF Stored, ObjectsInv
    <3>2. CASE Newest(objects'[n]) /\ version' = version + 1
      BY <1>2, <3>2 DEF Stored, Newest, ObjectType
    <3>3. QED
      BY <1>1, <3>1, <3>2 DEF SoundOutcome
  <2>2. QED
    BY <1>1, <2>1 DEF SoundOutcome
<1>4. \A n \in Objects!Names : cache'[n] = Objects!Absent \/ Stored(cache[n])'
  BY <1>1, <1>2, StoredStays DEF Stored, ObjectsInv
<1>5. /\ ask' = [d \in Clients |-> ask'[d]] /\ ask'[c] = r /\ \A d \in Clients : d # c => ask'[d] = ask[d]
      /\ \A d \in Clients : GoodRequest(ask'[d])
  BY DEF ObjectsInv
<1>6. ObjectsInv'
  BY <1>1, <1>2, <1>3, <1>4, <1>5 DEF ObjectsInv
<1>7. Seen(c) => NoneLost
  BY <1>5 DEF NoneLost
<1>8. QED
  BY <1>6, <1>7

\* A call that changes only what its request means to set.
LEMMA AnsweredOK ==
  ASSUME ObjectsInv, NEW c \in Clients, NEW r, GoodRequest(r), NEW o, SoundOutcome(o), Spares(o, r.named),
         ask' = [ask EXCEPT ![c] = r], Objects!Take(o), Objects!Quiet
  PROVE  ObjectsInv' /\ NoneLost
<1>1. ask'[c] = r /\ objects' = o.objects
  BY DEF ObjectsInv, Objects!Take
<1>2. Seen(c)
  BY <1>1 DEF Seen, Spares
<1>3. QED
  BY <1>2, TakenOK

\* A call answered in one step, alone or as an item of a batch.
LEMMA OnceOK ==
  ASSUME ObjectsInv, NEW c \in Clients, NEW r, GoodRequest(r), r.op # "get", r.next <= Len(r.items),
         NEW outcomes, \A o \in outcomes : SoundOutcome(o) /\ Spares(o, r.named),
         Objects!Once(c, r, outcomes) \/ (r = ask[c] /\ Objects!ItemCall(c, outcomes))
  PROVE  ObjectsInv' /\ NoneLost
<1>1. PICK o \in outcomes : /\ Objects!Take(o) /\ Objects!Respond(c, Objects!Answer(r, o)) /\ Objects!Quiet
  BY DEF Objects!Once, Objects!ItemCall
<1>2. SoundOutcome(o) /\ Spares(o, r.named)
  BY <1>1
<1>3. o.version \in Nat \ {0} /\ o.applied \in BOOLEAN /\ o.answer \in BOOLEAN /\ (o.answer => o.applied)
  BY <1>2 DEF SoundOutcome, ObjectsInv
<1> DEFINE a == Objects!Answer(r, o)
<1>4. GoodRequest(a) /\ a.named = r.named
  BY <1>3, AnswerGood
<1>5. ask' = [ask EXCEPT ![c] = a]
  BY <1>1 DEF Objects!Respond
<1> HIDE DEF a
<1>6. QED
  BY <1>1, <1>2, <1>4, <1>5, AnsweredOK

\* The objects stay.
LEMMA LookedOK ==
  ASSUME ObjectsInv, NEW c \in Clients, NEW r, GoodRequest(r), Objects!Respond(c, r), Objects!Quiet,
         UNCHANGED <<objects, version>>
  PROVE  ObjectsInv' /\ NoneLost
<1>1. PICK no \in BOOLEAN : no = FALSE
  OBVIOUS
<1> DEFINE o == [objects |-> objects, version |-> version, applied |-> no, answer |-> no]
<1>2. o \in Objects!Rejected
  BY <1>1, Zenon DEF Objects!Rejected
<1>3. o.objects = objects /\ o.version = version
  OBVIOUS
<1> HIDE DEF o
<1>4. SoundOutcome(o) /\ Spares(o, r.named)
  BY <1>2, RejectedSound
<1>5. Objects!Take(o) /\ ask' = [ask EXCEPT ![c] = r]
  BY <1>3 DEF Objects!Take, Objects!Respond
<1>6. QED
  BY <1>4, <1>5, AnsweredOK

-----------------------------------------------------------------------------
\* Reading an object.
LEMMA ShowOK ==
  ASSUME ObjectsInv, NEW c \in Clients, NEW object, object \in ObjectType, Objects!Show(c, object)
  PROVE  ObjectsInv' /\ NoneLost
<1> DEFINE r == [Objects!NoRequest EXCEPT !.op = "get", !.read = object]
<1>1. Objects!Respond(c, r) /\ Objects!Quiet /\ UNCHANGED <<objects, version>>
  BY DEF Objects!Show
<1>2. r = [Objects!NoRequest EXCEPT !.op = "get", !.read = object]
  OBVIOUS
<1> HIDE DEF r
<1>3. Fresh(r) /\ r.op = "get" /\ r.items = <<>> /\ r.read = object
  <2> DEFINE N == Objects!NoRequest
  <2>1. Fresh(N) /\ N.items = <<>>
    BY NoRequestFresh
  <2>2. r = [N EXCEPT !.op = "get", !.read = object]
    BY <1>2
  <2> HIDE DEF N
  <2>3. QED
    BY <2>1, <2>2 DEF Fresh, Shape
<1>5. <<>> \in Seq(Objects!Names)
  OBVIOUS
<1>6. GoodRequest(r)
  BY <1>3, <1>5, FreshGood
<1>7. QED
  BY <1>1, <1>6, LookedOK

\* A dry run.
LEMMA DryRunOK ==
  ASSUME ObjectsInv, NEW c \in Clients, NEW valid, Objects!DryRunEnds(c, valid)
  PROVE  ObjectsInv' /\ NoneLost
<1> DEFINE operation == IF valid THEN "dryRunValid" ELSE "dryRunInvalid"
           r == [Objects!NoRequest EXCEPT !.op = operation]
<1>1. Objects!Respond(c, r) /\ Objects!Quiet /\ UNCHANGED <<objects, version>>
  BY DEF Objects!DryRunEnds
<1>2. r = [Objects!NoRequest EXCEPT !.op = operation]
  OBVIOUS
<1>3. operation \in {"dryRunValid", "dryRunInvalid"}
  OBVIOUS
<1> HIDE DEF r, operation
<1>4. Fresh(r) /\ r.op = operation /\ r.items = <<>>
  <2> DEFINE N == Objects!NoRequest
  <2>1. Fresh(N) /\ N.items = <<>>
    BY NoRequestFresh
  <2>2. r = [N EXCEPT !.op = operation]
    BY <1>2
  <2> HIDE DEF N
  <2>3. QED
    BY <2>1, <2>2 DEF Fresh, Shape
<1>5. <<>> \in Seq(Objects!Names)
  OBVIOUS
<1>6. GoodRequest(r)
  BY <1>3, <1>4, <1>5, FreshGood
<1>7. QED
  BY <1>1, <1>6, LookedOK

\* Every request that reads.
LEMMA ReadOK ==
  ASSUME ObjectsInv, NEW c \in Clients, Objects!Read(c)
  PROVE  ObjectsInv' /\ NoneLost
<1>1. \A n \in Objects!Names : Objects!Get(n) = Objects!Absent \/ Objects!Get(n) \in ObjectType
  BY DEF Objects!Get, ObjectsInv, Stored
<1>2. ASSUME NEW n \in Objects!Names, Objects!GetObject(c, n) PROVE ObjectsInv' /\ NoneLost
  <2> DEFINE object == Objects!GetResource(n)
  <2>1. object \in ObjectType /\ Objects!Show(c, object)
    BY <1>1, <1>2 DEF Objects!GetObject, Objects!Show, Objects!GetResource
  <2> HIDE DEF object
  <2>2. QED
    BY <2>1, ShowOK
<1>3. ASSUME NEW n \in Objects!Names, Objects!DryRunCreate(c, n) PROVE ObjectsInv' /\ NoneLost
  <2>1. PICK valid : Objects!DryRunEnds(c, valid)
    BY <1>3 DEF Objects!DryRunCreate
  <2>2. QED
    BY <2>1, DryRunOK
<1>4. CASE Objects!ListObjects(c)
  <2>1. PICK n \in Objects!ListResources : Objects!Show(c, Objects!Get(n))
    BY <1>4 DEF Objects!ListObjects
  <2>2. n \in Objects!Names /\ Objects!Get(n) # Objects!Absent
    BY <2>1 DEF Objects!ListResources, Objects!List
  <2> DEFINE object == Objects!Get(n)
  <2>3. object \in ObjectType /\ Objects!Show(c, object)
    BY <1>1, <2>1, <2>2
  <2> HIDE DEF object
  <2>4. QED
    BY <2>3, ShowOK
<1>5. QED
  BY <1>2, <1>3, <1>4 DEF Objects!Read

-----------------------------------------------------------------------------
\* A call that is not made, because the cluster is unknown, is refused.
LEMMA OneCallOK ==
  ASSUME ObjectsInv, NEW c \in Clients, NEW r, GoodRequest(r), r.op # "get", r.next <= Len(r.items), NEW outcomes,
         \A o \in outcomes : SoundOutcome(o) /\ Spares(o, r.named),
         Objects!Once(c, r, Objects!IfKnown(outcomes)) \/ (r = ask[c] /\ Objects!ItemCall(c, Objects!IfKnown(outcomes)))
  PROVE  ObjectsInv' /\ NoneLost
<1> DEFINE known == Objects!IfKnown(outcomes)
<1>1. \A o \in known : SoundOutcome(o) /\ Spares(o, r.named)
  BY KnownIs, RejectedSound
<1>2. Objects!Once(c, r, known) \/ (r = ask[c] /\ Objects!ItemCall(c, known))
  OBVIOUS
<1> HIDE DEF known
<1>3. QED
  BY <1>1, <1>2, OnceOK

\* A patch, or a scale, of one setting.
LEMMA PatchOK ==
  ASSUME ObjectsInv, NEW c \in Clients, NEW n \in Objects!Names, NEW s \in Objects!Settings, NEW v \in Values,
         NEW operation \in {"patch", "scale"},
         Objects!Once(c, Objects!Asked(operation, n, {s}, 0), Objects!IfKnown(Objects!PatchCall(n, Objects!Only(s, v))))
  PROVE  ObjectsInv' /\ NoneLost
<1> DEFINE r == Objects!Asked(operation, n, {s}, 0)  patch == Objects!Only(s, v)
           outcomes == Objects!PatchCall(n, patch)
<1>1. r = Objects!Asked(operation, n, {s}, 0)
  OBVIOUS
<1>2. Objects!Once(c, r, Objects!IfKnown(outcomes))
  OBVIOUS
<1>3. DOMAIN patch \subseteq {s} /\ \A x \in DOMAIN patch : patch[x] \in Nat
  <2>1. v \in Nat
    BY ResourcesAssumption DEF Objects!ResourcesAssumption
  <2>2. QED
    BY <2>1, OnlyIs
<1> HIDE DEF r, patch
<1>4. \A o \in outcomes : SoundOutcome(o) /\ Spares(o, {s})
  BY <1>3, PatchSound
<1>5. GoodRequest(r) /\ r.op = operation /\ r.named = {s} /\ r.next <= Len(r.items)
  BY <1>1, AskedGood
<1> HIDE DEF outcomes
<1>6. QED
  BY <1>2, <1>4, <1>5, OneCallOK

\* A deletion.
LEMMA DeleteOK ==
  ASSUME ObjectsInv, NEW c \in Clients, NEW n \in Objects!Names, Objects!Delete(c, n)
  PROVE  ObjectsInv' /\ NoneLost
<1> DEFINE r == Objects!Asked("delete", n, {}, 0)  outcomes == Objects!DeleteCall(n)
<1>1. r = Objects!Asked("delete", n, {}, 0)
  OBVIOUS
<1>2. Objects!Once(c, r, Objects!IfKnown(outcomes))
  BY DEF Objects!Delete, Objects!DeleteResource
<1> HIDE DEF r
<1>3. \A o \in outcomes : SoundOutcome(o) /\ Spares(o, {})
  BY DeleteSound
<1>4. GoodRequest(r) /\ r.op = "delete" /\ r.named = {} /\ r.next <= Len(r.items)
  BY <1>1, AskedGood
<1> HIDE DEF outcomes
<1>5. QED
  BY <1>2, <1>3, <1>4, OneCallOK

\* The manifests objects are made with.
LEMMA FirstManifest ==
  ASSUME NEW v \in Nat
  PROVE  Objects!First \in Manifests /\ [Objects!First EXCEPT !["image"] = v] \in Manifests
BY DEF Objects!First, Manifests, Objects!Settings, Objects!TemplateSettings, Objects!Unset

\* A creation means every setting.
LEMMA CreateOK ==
  ASSUME ObjectsInv, NEW c \in Clients, NEW n \in Objects!Names, NEW v \in Values, Objects!Create(c, n, v)
  PROVE  ObjectsInv' /\ NoneLost
<1> DEFINE r == Objects!Asked("create", n, Objects!Settings, 0)
           spec == [Objects!First EXCEPT !["image"] = v]
           outcomes == Objects!CreateCall(n, spec)
<1>1. r = Objects!Asked("create", n, Objects!Settings, 0)
  OBVIOUS
<1>2. Objects!Once(c, r, Objects!IfKnown(outcomes))
  BY DEF Objects!Create, Objects!CreateResource
<1>3. spec \in Manifests
  BY ResourcesAssumption, FirstManifest DEF Objects!ResourcesAssumption
<1> HIDE DEF r, spec
<1>4. \A o \in outcomes : SoundOutcome(o) /\ Spares(o, Objects!Settings)
  BY <1>3, CreateSound
<1>5. GoodRequest(r) /\ r.op = "create" /\ r.named = Objects!Settings /\ r.next <= Len(r.items)
  BY <1>1, AskedGood
<1> HIDE DEF outcomes
<1>6. QED
  BY <1>2, <1>4, <1>5, OneCallOK

\* A manifest with a version is refused if the object has changed since its
\* author read it; one without means every setting.
LEMMA UpdateOK ==
  ASSUME ObjectsInv, NEW c \in Clients, NEW n \in Objects!Names, NEW s \in Objects!Edited, NEW v \in Values,
         NEW keep \in BOOLEAN, Objects!Update(c, n, s, v, keep)
  PROVE  ObjectsInv' /\ NoneLost
<1> DEFINE seen == ask[c].read  named == IF keep THEN {s} ELSE Objects!Settings
           r == Objects!Asked("update", n, named, seen.version)
           body == Objects!Body(c, s, v, keep)
<1>1. seen \in ObjectType /\ Objects!Once(c, r, Objects!UpdateResource(n, body))
  BY DEF Objects!Update, Objects!Shown, ObjectsInv, GoodRequest
<1>2. r = Objects!Asked("update", n, named, seen.version)
  OBVIOUS
<1>3. /\ body.spec = [seen.spec EXCEPT ![s] = v]
      /\ body.version = IF keep THEN seen.version ELSE 0
  BY DEF Objects!Body
<1>4. \/ body.version = seen.version /\ body.version # 0 /\ body.version \in Nat
      \/ body.version = 0 /\ named = Objects!Settings
  <2>1. seen.version \in Nat \ {0}
    BY <1>1 DEF ObjectType
  <2> HIDE DEF seen, body
  <2>2. CASE keep
    BY <1>3, <2>1, <2>2
  <2>3. CASE ~keep
    BY <1>3, <2>3
  <2>4. QED
    BY <2>2, <2>3
<1>5. body.spec \in Manifests /\ body.version \in Nat
  <2>1. v \in Nat /\ s \in Objects!Settings
    BY ResourcesAssumption DEF Objects!ResourcesAssumption, Objects!Edited, Objects!Settings, Objects!TemplateSettings
  <2> HIDE DEF body, named
  <2>2. seen.spec \in Manifests
    BY <1>1 DEF ObjectType
  <2>3. body.spec \in Manifests
    BY <1>3, <2>1, <2>2 DEF Manifests
  <2>4. QED
    BY <1>4, <2>3
<1> HIDE DEF r, body, named, seen
<1>6. GoodRequest(r) /\ r.op = "update" /\ r.named = named /\ r.base = seen.version /\ r.next <= Len(r.items)
  BY <1>2, AskedGood
<1>7. PICK o \in Objects!UpdateResource(n, body) :
           Objects!Take(o) /\ Objects!Respond(c, Objects!Answer(r, o)) /\ Objects!Quiet
  BY <1>1 DEF Objects!Once
<1>8. /\ SoundOutcome(o)
      /\ \A m \in Objects!Names : o.objects[m] = objects[m] \/ (m = n /\ body.version \in {0, objects[m].version})
  <2>1. CASE o \in Objects!Rejected
    BY <2>1, RejectedSound
  <2>2. CASE o \in Objects!UpdateCall(n, body)
    BY <1>5, <2>2, UpdateSound
  <2>3. QED
    BY <1>7, <2>1, <2>2, KnownIs DEF Objects!UpdateResource
<1> DEFINE a == Objects!Answer(r, o)
<1>9. GoodRequest(a) /\ a.named = named /\ a.base = seen.version
  <2>1. o.version \in Nat \ {0} /\ o.applied \in BOOLEAN /\ o.answer \in BOOLEAN /\ (o.answer => o.applied)
    BY <1>8 DEF SoundOutcome, ObjectsInv
  <2>2. QED
    BY <1>6, <2>1, AnswerGood
<1>10. ask' = [ask EXCEPT ![c] = a]
  BY <1>7 DEF Objects!Respond
<1> HIDE DEF a
<1>11. Seen(c)
  <2>1. ask'[c] = a /\ objects' = o.objects
    BY <1>7, <1>10 DEF ObjectsInv, Objects!Take
  <2>2. QED
    BY <1>4, <1>8, <1>9, <2>1 DEF Seen
<1>12. QED
  BY <1>7, <1>8, <1>9, <1>10, <1>11, TakenOK

-----------------------------------------------------------------------------
\* A scale is a patch of the replicas.
LEMMA ScaleOK ==
  ASSUME ObjectsInv, NEW c \in Clients, NEW n \in Objects!Names, NEW v \in Values, Objects!Scale(c, n, v)
  PROVE  ObjectsInv' /\ NoneLost
<1> DEFINE s == "replicas"
<1>1. s \in Objects!Settings
  BY DEF Objects!Settings
<1>2. Objects!Once(c, Objects!Asked("scale", n, {s}, 0), Objects!IfKnown(Objects!PatchCall(n, Objects!Only(s, v))))
  BY DEF Objects!Scale, Objects!ScaleWorkload
<1> HIDE DEF s
<1>3. QED
  BY <1>1, <1>2, PatchOK

\* A request whose items wait for the loop.
LEMMA ListedOK ==
  ASSUME ObjectsInv, NEW c \in Clients, NEW items \in Seq(Objects!Names),
         Objects!BatchDelete(c, items) \/ Objects!BatchRestart(c, items)
  PROVE  ObjectsInv' /\ NoneLost
<1> DEFINE N == Objects!NoRequest
<1>1. Fresh(N)
  BY NoRequestFresh
<1>2. PICK r : /\ \/ r = [N EXCEPT !.op = "batchDelete", !.items = items]
                  \/ r = [N EXCEPT !.op = "restart", !.items = items, !.named = {"stamp"}]
               /\ Objects!Respond(c, r) /\ Objects!Quiet /\ UNCHANGED <<objects, version>>
  BY DEF Objects!BatchDelete, Objects!BatchRestart
<1> HIDE DEF N
<1>3. /\ Fresh(r) /\ r.items = items /\ r.op \in {"batchDelete", "restart"}
      /\ (r.op = "restart" => r.named = {"stamp"})
  BY <1>1, <1>2 DEF Fresh, Shape
<1>4. GoodRequest(r)
  BY <1>3, FreshGood
<1>5. QED
  BY <1>2, <1>4, LookedOK

\* A rollback is asked for.
LEMMA RollbackAskedOK ==
  ASSUME ObjectsInv, NEW c \in Clients, NEW n \in Objects!Names, NEW revision, Objects!Rollback(c, n, revision)
  PROVE  ObjectsInv' /\ NoneLost
<1> DEFINE a == Objects!Asked("rollback", n, Objects!TemplateSettings, 0)
           r == [a EXCEPT !.revision = revision]
<1>1. Fresh(a) /\ a.op = "rollback" /\ a.items = <<n>> /\ a.named = Objects!TemplateSettings
  BY AskedFresh
<1>2. r = [a EXCEPT !.revision = revision] /\ Objects!Respond(c, r) /\ Objects!Quiet /\ UNCHANGED <<objects, version>>
  BY DEF Objects!Rollback
<1> HIDE DEF a, r
<1>3. Fresh(r) /\ r.op = "rollback" /\ r.items = <<n>> /\ r.named = Objects!TemplateSettings
  BY <1>1, <1>2 DEF Fresh, Shape
<1>4. r.items \in Seq(Objects!Names)
  BY <1>3
<1>5. GoodRequest(r)
  BY <1>3, <1>4, FreshGood
<1>6. QED
  BY <1>2, <1>5, LookedOK

\* Every request that changes an object.
LEMMA WriteOK ==
  ASSUME ObjectsInv, NEW c \in Clients, Objects!Write(c)
  PROVE  ObjectsInv' /\ NoneLost
<1>1. PICK n \in Objects!Names :
        \/ Objects!Delete(c, n) \/ Objects!Restart(c, n)
        \/ \E v \in Values : Objects!Create(c, n, v) \/ Objects!Scale(c, n, v)
        \/ \E s \in Objects!Edited, v \in Values :
             \/ Objects!Patch(c, n, s, v)
             \/ \E keep \in BOOLEAN : Objects!Update(c, n, s, v, keep) \/ Objects!DryRunUpdate(c, n, s, v, keep)
        \/ \E revision \in {0} \cup Objects!RolloutHistory(n) : Objects!Rollback(c, n, revision)
  BY Zenon DEF Objects!Write
<1>2. CASE Objects!Delete(c, n)
  BY <1>2, DeleteOK
<1>3. CASE Objects!Restart(c, n)
  <2> DEFINE items == <<n>>
  <2>1. items \in Seq(Objects!Names) /\ Objects!BatchRestart(c, items)
    BY <1>3 DEF Objects!Restart
  <2> HIDE DEF items
  <2>2. QED
    BY <2>1, ListedOK
<1>4. ASSUME NEW v \in Values, Objects!Create(c, n, v) \/ Objects!Scale(c, n, v) PROVE ObjectsInv' /\ NoneLost
  BY <1>4, CreateOK, ScaleOK
<1>5. ASSUME NEW s \in Objects!Edited, NEW v \in Values, Objects!Patch(c, n, s, v) PROVE ObjectsInv' /\ NoneLost
  <2>1. s \in Objects!Settings
    BY DEF Objects!Edited, Objects!Settings, Objects!TemplateSettings
  <2>2. Objects!Once(c, Objects!Asked("patch", n, {s}, 0), Objects!IfKnown(Objects!PatchCall(n, Objects!Only(s, v))))
    BY <1>5 DEF Objects!Patch, Objects!PatchResource
  <2>3. QED
    BY <2>1, <2>2, PatchOK
<1>6. ASSUME NEW s \in Objects!Edited, NEW v \in Values, NEW keep \in BOOLEAN,
             Objects!Update(c, n, s, v, keep) \/ Objects!DryRunUpdate(c, n, s, v, keep)
      PROVE  ObjectsInv' /\ NoneLost
  <2>1. CASE Objects!Update(c, n, s, v, keep)
    BY <2>1, UpdateOK
  <2>2. CASE Objects!DryRunUpdate(c, n, s, v, keep)
    <3>1. PICK valid : Objects!DryRunEnds(c, valid)
      BY <2>2 DEF Objects!DryRunUpdate
    <3>2. QED
      BY <3>1, DryRunOK
  <2>3. QED
    BY <1>6, <2>1, <2>2
<1>7. ASSUME NEW revision, Objects!Rollback(c, n, revision) PROVE ObjectsInv' /\ NoneLost
  BY <1>7, RollbackAskedOK
<1>8. QED
  BY <1>1, <1>2, <1>3, <1>4, <1>5, <1>6, <1>7, Zenon

-----------------------------------------------------------------------------
\* The item a request is at.
LEMMA ItemIs ==
  ASSUME ObjectsInv, NEW c \in Clients, NEW operation, Objects!Working(c, operation)
  PROVE  /\ GoodRequest(ask[c]) /\ ask[c].op = operation /\ ask[c].next <= Len(ask[c].items)
         /\ Objects!Item(c) \in Objects!Names
<1>1. GoodRequest(ask[c]) /\ ask[c].op = operation /\ ~(ask[c].next > Len(ask[c].items))
  BY DEF ObjectsInv, Objects!Working, Objects!Free
<1>2. ask[c].items \in Seq(Objects!Names) /\ ask[c].next \in Nat \ {0}
  BY <1>1 DEF GoodRequest
<1>3. ask[c].next \in 1..Len(ask[c].items)
  BY <1>1, <1>2, LenProperties
<1>4. QED
  BY <1>1, <1>2, <1>3, LenProperties, ElementOfSeq DEF Objects!Item

\* An item is answered without a call.
LEMMA RefusedOK ==
  ASSUME ObjectsInv, NEW c \in Clients, NEW operation, operation # "get", Objects!Working(c, operation),
         Objects!ItemCall(c, Objects!Rejected)
  PROVE  ObjectsInv' /\ NoneLost
<1> DEFINE r == ask[c]  outcomes == Objects!Rejected
<1>1. GoodRequest(r) /\ r.op = operation /\ r.next <= Len(r.items)
  BY ItemIs
<1>2. \A o \in outcomes : SoundOutcome(o) /\ Spares(o, r.named)
  BY RejectedSound
<1>3. r = ask[c] /\ Objects!ItemCall(c, outcomes)
  OBVIOUS
<1> HIDE DEF r, outcomes
<1>4. QED
  BY <1>1, <1>2, <1>3, OnceOK

\* Batches and restarts, one item at a time.
LEMMA BatchOK ==
  ASSUME ObjectsInv, NEW c \in Clients, Objects!Batch(c)
  PROVE  ObjectsInv' /\ NoneLost
<1> DEFINE r == ask[c]  n == Objects!Item(c)
<1>1. ASSUME NEW items \in Batches, Objects!BatchDelete(c, items) \/ Objects!BatchRestart(c, items)
      PROVE  ObjectsInv' /\ NoneLost
  <2>1. items \in Seq(Objects!Names)
    BY ResourcesAssumption DEF Objects!ResourcesAssumption
  <2>2. QED
    BY <1>1, <2>1, ListedOK
<1>2. CASE Objects!DeleteItem(c)
  <2> DEFINE outcomes == Objects!DeleteCall(n)
  <2>1. GoodRequest(r) /\ r.op = "batchDelete" /\ r.next <= Len(r.items) /\ n \in Objects!Names
    BY <1>2, ItemIs DEF Objects!DeleteItem
  <2>2. r = ask[c] /\ Objects!ItemCall(c, Objects!IfKnown(outcomes))
    BY <1>2 DEF Objects!DeleteItem, Objects!DeleteResource
  <2> HIDE DEF r, n
  <2>3. \A o \in outcomes : SoundOutcome(o) /\ Spares(o, r.named)
    BY <2>1, DeleteSound
  <2> HIDE DEF outcomes
  <2>4. QED
    BY <2>1, <2>2, <2>3, OneCallOK
<1>3. CASE Objects!RestartWorkload(c)
  <2> DEFINE patch == Objects!Only("stamp", clock)  outcomes == Objects!PatchCall(n, patch)
  <2>1. GoodRequest(r) /\ r.op = "restart" /\ r.next <= Len(r.items) /\ n \in Objects!Names
    BY <1>3, ItemIs DEF Objects!RestartWorkload
  <2>2. r = ask[c] /\ Objects!ItemCall(c, Objects!IfKnown(outcomes))
    BY <1>3 DEF Objects!RestartWorkload
  <2>3. DOMAIN patch \subseteq {"stamp"} /\ \A x \in DOMAIN patch : patch[x] \in Nat
    <3>1. clock \in Nat /\ "stamp" \in Objects!Settings
      BY ResourcesAssumption DEF ObjectsInv, Objects!ResourcesAssumption, Objects!Settings, Objects!TemplateSettings
    <3>2. QED
      BY <3>1, OnlyIs
  <2>4. r.named = {"stamp"}
    BY <2>1 DEF GoodRequest
  <2> HIDE DEF r, n, patch
  <2>5. \A o \in outcomes : SoundOutcome(o) /\ Spares(o, {"stamp"})
    BY <2>1, <2>3, PatchSound
  <2>6. \A o \in outcomes : SoundOutcome(o) /\ Spares(o, r.named)
    BY <2>4, <2>5, Zenon
  <2> HIDE DEF outcomes
  <2>7. QED
    BY <2>1, <2>2, <2>6, OneCallOK
<1>4. CASE Objects!RestartPodGet(c)
  <2>1. Objects!Working(c, "restart")
    BY <1>4 DEF Objects!RestartPodGet
  <2>2. CASE Objects!ItemCall(c, Objects!Rejected)
    BY <2>1, <2>2, RefusedOK
  <2>3. ASSUME Objects!Respond(c, [r EXCEPT !.step = "delete", !.read = objects[n]]),
               Objects!Quiet, UNCHANGED <<objects, version>>
        PROVE  ObjectsInv' /\ NoneLost
    <3> DEFINE object == objects[n]  x == [r EXCEPT !.step = "delete", !.read = object]
    <3>1. GoodRequest(r) /\ r.op = "restart"
      BY <2>1, ItemIs
    <3>2. Objects!Respond(c, x)
      BY <2>3
    <3> HIDE DEF r, object
    <3>3. GoodRequest(x)
      BY <3>1, GoesOn
    <3> HIDE DEF x
    <3>4. QED
      BY <2>3, <3>2, <3>3, LookedOK
  <2>4. QED
    BY <1>4, <2>2, <2>3 DEF Objects!RestartPodGet
<1>5. CASE Objects!RestartPodDelete(c)
  <2> DEFINE outcomes == Objects!DeleteCall(n)
  <2>1. GoodRequest(r) /\ r.op = "restart" /\ r.next <= Len(r.items) /\ n \in Objects!Names
    BY <1>5, ItemIs DEF Objects!RestartPodDelete
  <2>2. r = ask[c] /\ Objects!ItemCall(c, outcomes)
    BY <1>5 DEF Objects!RestartPodDelete
  <2> HIDE DEF r, n
  <2>3. \A o \in outcomes : SoundOutcome(o) /\ Spares(o, r.named)
    BY <2>1, DeleteSound
  <2> HIDE DEF outcomes
  <2>4. QED
    BY <2>1, <2>2, <2>3, OnceOK
<1>6. QED
  BY <1>1, <1>2, <1>3, <1>4, <1>5 DEF Objects!Batch

\* The patch of a rollback is made of template settings.
LEMMA AsPatchIs ==
  ASSUME NEW t \in Templates
  PROVE  /\ DOMAIN Objects!AsPatch(t) \subseteq Objects!TemplateSettings
         /\ \A x \in DOMAIN Objects!AsPatch(t) : Objects!AsPatch(t)[x] \in Nat
BY DEF Objects!AsPatch, Templates

\* A rollback patches template settings only, however old what it read is.
LEMMA RollingBackOK ==
  ASSUME ObjectsInv, NEW c \in Clients, Objects!RollingBack(c)
  PROVE  ObjectsInv' /\ NoneLost
<1> DEFINE r == ask[c]  n == Objects!Item(c)
<1>1. Objects!Working(c, "rollback")
  BY DEF Objects!RollingBack, Objects!RollbackGet, Objects!RollbackList, Objects!RollbackPatch
<1>2. /\ GoodRequest(r) /\ r.op = "rollback" /\ r.next <= Len(r.items) /\ n \in Objects!Names
      /\ r.named = Objects!TemplateSettings
  BY <1>1, ItemIs DEF GoodRequest
<1>3. CASE Objects!ItemCall(c, Objects!Rejected)
  BY <1>1, <1>3, RefusedOK
<1>4. ASSUME Objects!Respond(c, [r EXCEPT !.step = "list", !.read = objects[n]]),
             Objects!Quiet, UNCHANGED <<objects, version>>
      PROVE  ObjectsInv' /\ NoneLost
  <2> DEFINE object == objects[n]  x == [r EXCEPT !.step = "list", !.read = object]
  <2>1. Objects!Respond(c, x)
    BY <1>4
  <2> HIDE DEF r, object
  <2>2. GoodRequest(x)
    BY <1>2, GoesOn
  <2> HIDE DEF x
  <2>3. QED
    BY <1>4, <2>1, <2>2, LookedOK
<1>5. ASSUME NEW rs \in sets, Objects!Respond(c, [r EXCEPT !.step = "patch", !.target = rs.template]),
             Objects!Quiet, UNCHANGED <<objects, version>>
      PROVE  ObjectsInv' /\ NoneLost
  <2> DEFINE target == rs.template  x == [r EXCEPT !.step = "patch", !.target = target]
  <2>1. Objects!Respond(c, x)
    BY <1>5
  <2>2. target \in Templates
    BY DEF ObjectsInv, ReplicaSetType
  <2> HIDE DEF r, target
  <2>3. GoodRequest(x)
    BY <1>2, <2>2, GoesOn
  <2> HIDE DEF x
  <2>4. QED
    BY <1>5, <2>1, <2>3, LookedOK
<1>6. CASE Objects!RollbackPatch(c)
  <2> DEFINE patch == Objects!AsPatch(r.target)
  <2>0. PICK o \in Objects!PatchCall(n, patch) : \E written :
             /\ Objects!Take(o) /\ Objects!Quiet
             /\ Objects!Respond(c, [Objects!Answer(r, o) EXCEPT !.written = written])
    BY <1>6 DEF Objects!RollbackPatch
  <2>1. PICK written :
             /\ Objects!Take(o) /\ Objects!Quiet
             /\ Objects!Respond(c, [Objects!Answer(r, o) EXCEPT !.written = written])
    BY <2>0
  <2>2. r.target \in Templates
    BY <1>2, <1>6 DEF GoodRequest, Objects!RollbackPatch
  <2>3. DOMAIN patch \subseteq Objects!TemplateSettings /\ \A x \in DOMAIN patch : patch[x] \in Nat
    BY <2>2, AsPatchIs
  <2> HIDE DEF r, patch, n
  <2>4. SoundOutcome(o) /\ Spares(o, Objects!TemplateSettings)
    BY <1>2, <2>1, <2>3, PatchSound
  <2>5. o.version \in Nat \ {0} /\ o.applied \in BOOLEAN /\ o.answer \in BOOLEAN /\ (o.answer => o.applied)
    BY <2>4 DEF SoundOutcome, ObjectsInv
  <2> DEFINE a == Objects!Answer(r, o)  x == [a EXCEPT !.written = written]
  <2>6. GoodRequest(a) /\ a.op = "rollback" /\ a.named = Objects!TemplateSettings
    BY <1>2, <2>5, AnswerGood
  <2>7. ask' = [ask EXCEPT ![c] = x]
    BY <2>1 DEF Objects!Respond
  <2> HIDE DEF a
  <2>8. GoodRequest(x) /\ x.named = Objects!TemplateSettings
    BY <2>6, GoesOn
  <2> HIDE DEF x
  <2>9. Spares(o, x.named)
    BY <2>4, <2>8
  <2>10. QED
    BY <2>1, <2>4, <2>7, <2>8, <2>9, AnsweredOK
<1>7. QED
  BY <1>3, <1>4, <1>5, <1>6 DEF Objects!RollingBack, Objects!RollbackGet, Objects!RollbackList, Objects!Owned

-----------------------------------------------------------------------------
\* What the environment does, it does for no client.
LEMMA NobodyAnswered ==
  ASSUME UNCHANGED ask
  PROVE  NoneLost
BY DEF NoneLost

\* One object changes, and the version with it.
LEMMA ChangedOK ==
  ASSUME ObjectsInv, NEW n \in Objects!Names, NEW object, object = Objects!Absent \/ Newest(object),
         version < MaxVersion, objects' = [objects EXCEPT ![n] = object], version' = version + 1,
         UNCHANGED <<ask, clusterExists, cache, clock>>,
         sets' \subseteq ReplicaSetType, \A rs \in sets' : rs.revision <= MaxRevision
  PROVE  ObjectsInv'
<1>1. version \in Nat /\ version' \in Nat /\ version' >= version /\ version' \in 1..MaxVersion
  BY ResourcesAssumption DEF ObjectsInv, Objects!ResourcesAssumption
<1>2. /\ objects' = [m \in Objects!Names |-> objects'[m]]
      /\ \A m \in Objects!Names : objects'[m] = Objects!Absent \/ Stored(objects[m])'
  <2>1. ASSUME NEW m \in Objects!Names PROVE objects'[m] = Objects!Absent \/ Stored(objects[m])'
    <3>1. CASE m # n
      <4>1. objects'[m] = objects[m]
        BY <3>1 DEF ObjectsInv
      <4>2. QED
        BY <1>1, <4>1, StoredStays DEF Stored, ObjectsInv
    <3>2. CASE m = n
      <4>1. objects'[m] = object
        BY <3>2 DEF ObjectsInv
      <4>2. QED
        BY <1>1, <4>1 DEF Stored, Newest, ObjectType
    <3>3. QED
      BY <3>1, <3>2
  <2>2. QED
    BY <2>1 DEF ObjectsInv
<1>3. \A m \in Objects!Names : cache'[m] = Objects!Absent \/ Stored(cache[m])'
  BY <1>1, StoredStays DEF Stored, ObjectsInv
<1>4. QED
  BY <1>1, <1>2, <1>3 DEF ObjectsInv

\* The deployment controller numbers a revision.
LEMMA RolloutOK ==
  ASSUME ObjectsInv, NEW n \in Objects!Names, Objects!Rollout(n)
  PROVE  ObjectsInv'
<1> DEFINE x == objects[n]
           owned == Objects!Owned(x)
           template == Objects!Template(x.spec)
           same == {rs \in owned : rs.template = template}
           R == {rs.revision : rs \in owned}
           latest == IF owned = {} THEN 0 ELSE CHOOSE r \in R : \A rs \in owned : rs.revision <= r
           revision == IF \E rs \in same : rs.revision = latest THEN latest ELSE latest + 1
           new == [owner |-> x.uid, revision |-> revision, template |-> template]
           object == [x EXCEPT !.revision = revision, !.version = version + 1]
<1>1. /\ version < MaxVersion /\ x # Objects!Absent /\ revision <= MaxRevision
      /\ sets' = (sets \ same) \cup {new}
      /\ objects' = [objects EXCEPT ![n].revision = revision, ![n].version = version + 1]
      /\ version' = version + 1 /\ UNCHANGED <<ask, clusterExists, cache, clock>>
  BY DEF Objects!Rollout, Objects!Live, Objects!Environment
<1>2. owned \subseteq sets /\ sets \subseteq ReplicaSetType /\ \A rs \in sets : rs.revision <= MaxRevision
  BY DEF ObjectsInv, Objects!Owned
<1>3. MaxRevision \in Nat /\ MaxVersion \in Nat /\ version \in Nat
  BY ResourcesAssumption DEF ObjectsInv, Objects!ResourcesAssumption
<1>4. x \in ObjectType /\ x.uid <= version /\ n \in DOMAIN objects
  <2>1. Stored(x) /\ n \in DOMAIN objects
    BY <1>1 DEF ObjectsInv
  <2> HIDE DEF x
  <2>2. QED
    BY <1>3, <2>1 DEF Stored, ObjectType
<1>5. template \in Templates
  BY <1>4 DEF Objects!Template, Templates, ObjectType, Manifests, Objects!Settings
<1>6. revision \in Nat \ {0}
  <2>1. \A rs \in owned : rs.revision \in Nat \ {0} /\ rs.revision \in 0..MaxRevision
    BY <1>2, <1>3 DEF ReplicaSetType
  <2>2. CASE owned = {}
    <3>1. latest = 0 /\ same = {}
      BY <2>2, Zenon
    <3>2. revision = 0 + 1
      BY <3>1, Zenon
    <3> HIDE DEF revision
    <3>3. QED
      BY <3>2
  <2>3. CASE owned # {}
    <3>1. R \subseteq 0..MaxRevision /\ R # {} /\ \A rs \in owned : rs.revision \in R
      BY <2>1, <2>3
    <3>2. \A r \in R : r \in Nat \ {0}
      BY <2>1
    <3>3. PICK r \in R : \A y \in R : y <= r
      <4> HIDE DEF R
      <4>1. QED
        BY <1>3, <3>1, LargestOf
    <3>4. latest \in R
      <4>1. \E q \in R : \A rs \in owned : rs.revision <= q
        BY <3>1, <3>3
      <4>2. latest = CHOOSE q \in R : \A rs \in owned : rs.revision <= q
        BY <2>3, Zenon
      <4> HIDE DEF latest, R, owned
      <4>3. QED
        BY <4>1, <4>2, Zenon
    <3>5. latest \in Nat \ {0} /\ latest + 1 \in Nat \ {0}
      <4> HIDE DEF latest, R
      <4>1. QED
        BY <3>2, <3>4
    <3>6. revision = latest \/ revision = latest + 1
      BY Zenon
    <3> HIDE DEF revision, latest
    <3>7. QED
      BY <3>5, <3>6
  <2>4. QED
    BY <2>2, <2>3
<1>7. objects' = [objects EXCEPT ![n] = object]
  <2> HIDE DEF revision
  <2>1. QED
    BY <1>1, <1>4 DEF ObjectsInv
<1> HIDE DEF revision
<1>8. new \in ReplicaSetType
  <2>1. x.uid \in Nat
    BY <1>4 DEF ObjectType
  <2> HIDE DEF x, template
  <2>2. QED
    BY <1>5, <1>6, <2>1 DEF ReplicaSetType
<1>9. new.revision <= MaxRevision
  BY <1>1
<1> HIDE DEF new
<1>10. sets' \subseteq ReplicaSetType /\ \A rs \in sets' : rs.revision <= MaxRevision
  <2> HIDE DEF same
  <2>1. QED
    BY <1>1, <1>2, <1>8, <1>9
<1>11. Newest(object)
  <2> HIDE DEF x
  <2>1. version + 1 \in Nat \ {0} /\ x.uid <= version + 1
    BY <1>3, <1>4 DEF ObjectType
  <2> DEFINE z == [x EXCEPT !.revision = revision]
             w == [z EXCEPT !.version = version + 1]
  <2>2. z \in ObjectType /\ z.uid = x.uid
    BY <1>4, <1>6 DEF ObjectType
  <2>3. object = w
    BY Zenon
  <2> HIDE DEF z
  <2>4. w \in ObjectType /\ w.uid = z.uid /\ w.version = version + 1
    BY <2>1, <2>2 DEF ObjectType
  <2> HIDE DEF w, object
  <2>5. QED
    BY <2>1, <2>2, <2>3, <2>4 DEF Newest
<1> HIDE DEF object
<1>12. QED
  BY <1>1, <1>7, <1>10, <1>11, ChangedOK

\* Somebody else's change.
LEMMA OthersOK ==
  ASSUME ObjectsInv, NEW n \in Objects!Names, Objects!Others(n)
  PROVE  ObjectsInv'
<1>1. /\ objects[n] # Objects!Absent /\ version < MaxVersion /\ version' = version + 1
      /\ UNCHANGED <<ask, clusterExists, sets, cache, clock>>
  BY DEF Objects!Others, Objects!Live, Objects!Environment
<1>2. sets' \subseteq ReplicaSetType /\ \A rs \in sets' : rs.revision <= MaxRevision
  BY <1>1 DEF ObjectsInv
<1>3. CASE objects' = [objects EXCEPT ![n] = Objects!Absent]
  BY <1>1, <1>2, <1>3, ChangedOK
<1>4. ASSUME NEW s \in Objects!Edited, NEW v \in Values, objects[n].spec[s] # v,
             objects' = [objects EXCEPT ![n] = Objects!Changed(n, Objects!Merged(Objects!Only(s, v), objects[n].spec))]
      PROVE  ObjectsInv'
  <2> DEFINE spec == Objects!Merged(Objects!Only(s, v), objects[n].spec)  object == Objects!Changed(n, spec)
  <2>1. objects[n].spec \in Manifests /\ v \in Nat /\ s \in Objects!Settings
    BY <1>1, ResourcesAssumption
    DEF Stored, ObjectsInv, ObjectType, Objects!ResourcesAssumption, Objects!Edited, Objects!Settings,
        Objects!TemplateSettings
  <2>2. spec \in Manifests /\ spec[s] = v
    BY <2>1 DEF Objects!Merged, Objects!Only, Manifests
  <2>3. objects' = [objects EXCEPT ![n] = object]
    BY <1>4
  <2>4. Objects!Live(n)
    BY <1>1 DEF Objects!Live
  <2> HIDE DEF spec
  <2>5. Newest(object)
    <3>1. object = objects[n] \/ Newest(object)
      BY <1>1, <2>2, <2>4, ChangedIs
    <3>2. object.spec = spec
      BY <1>1, <2>2, <2>4, ChangedIs
    <3> HIDE DEF object
    <3>3. QED
      BY <1>4, <2>2, <3>1, <3>2
  <2> HIDE DEF object
  <2>6. QED
    BY <1>1, <1>2, <2>3, <2>5, ChangedOK
<1>5. QED
  BY <1>3, <1>4 DEF Objects!Others

\* A pod is made again.
LEMMA RecreateOK ==
  ASSUME ObjectsInv, NEW n \in Objects!Names, Objects!Recreate(n)
  PROVE  ObjectsInv'
<1> DEFINE object == Objects!New(n, Objects!First, TRUE)
<1>1. /\ objects' = [objects EXCEPT ![n] = object] /\ version < MaxVersion /\ version' = version + 1
      /\ UNCHANGED <<ask, clusterExists, sets, cache, clock>>
  BY DEF Objects!Recreate, Objects!Environment
<1>2. sets' \subseteq ReplicaSetType /\ \A rs \in sets' : rs.revision <= MaxRevision
  BY <1>1 DEF ObjectsInv
<1>3. Newest(object)
  <2>1. PICK b \in BOOLEAN : b = TRUE
    OBVIOUS
  <2>2. Objects!First \in Manifests
    BY FirstManifest
  <2>3. Newest(Objects!New(n, Objects!First, b))
    BY <2>2, NewStored
  <2>4. QED
    BY <2>1, <2>3, Zenon
<1> HIDE DEF object
<1>4. QED
  BY <1>1, <1>2, <1>3, ChangedOK

\* The versions stay.
LEMMA QuietOK ==
  ASSUME ObjectsInv, UNCHANGED <<objects, version, ask>>,
         \/ \E n \in Objects!Names : cache' = [cache EXCEPT ![n] = objects[n]]
         \/ cache' = cache,
         clock' \in 1..MaxClock, clusterExists' \in BOOLEAN, sets' \subseteq sets
  PROVE  ObjectsInv'
<1>1. /\ cache' = [n \in Objects!Names |-> cache'[n]]
      /\ \A n \in Objects!Names : cache'[n] = cache[n] \/ cache'[n] = objects[n]
  BY DEF ObjectsInv
<1>2. QED
  BY <1>1 DEF ObjectsInv, Stored

-----------------------------------------------------------------------------
\* The invariant holds at first.
LEMMA ObjectsInit == ASSUME Objects!Init PROVE ObjectsInv
<1>1. Objects!First \in Manifests
  BY FirstManifest
<1>2. objects = [n \in Objects!Names |-> [name |-> n, uid |-> 1, version |-> 1, spec |-> Objects!First,
                                          revision |-> 1, managed |-> n \in Pods]]
  BY DEF Objects!Init
<1>3. version = 1 /\ clock = 1 /\ clusterExists \in BOOLEAN /\ cache = objects
  BY DEF Objects!Init
<1>4. ASSUME NEW n \in Objects!Names PROVE Stored(objects[n])
  <2>0. (n \in Pods) \in BOOLEAN
    BY SMT
  <2>1. PICK b \in BOOLEAN : b = (n \in Pods)
    BY <2>0, Zenon
  <2>2. objects[n] = [name |-> n, uid |-> 1, version |-> 1, spec |-> Objects!First, revision |-> 1, managed |-> b]
    BY <1>2, <2>1
  <2>3. QED
    BY <1>1, <1>3, <2>2 DEF Stored, ObjectType
<1>5. sets \subseteq ReplicaSetType /\ \A rs \in sets : rs.revision <= MaxRevision
  <2>1. Objects!Template(Objects!First) \in Templates
    BY <1>1 DEF Objects!Template, Templates, Manifests, Objects!Settings
  <2>2. \A rs \in sets : rs = [owner |-> 1, revision |-> 1, template |-> Objects!Template(Objects!First)]
    BY DEF Objects!Init
  <2>3. MaxRevision \in Nat \ {0}
    BY ResourcesAssumption DEF Objects!ResourcesAssumption
  <2>4. QED
    BY <2>1, <2>2, <2>3 DEF ReplicaSetType
<1>6. ask = [c \in Clients |-> ask[c]] /\ \A c \in Clients : GoodRequest(ask[c])
  <2> DEFINE N == Objects!NoRequest
  <2>1. ask = [c \in Clients |-> N]
    BY DEF Objects!Init
  <2>2. Fresh(N) /\ N.op = "none" /\ N.items = <<>>
    BY NoRequestFresh
  <2> HIDE DEF N
  <2>3. <<>> \in Seq(Objects!Names)
    OBVIOUS
  <2>4. GoodRequest(N)
    BY <2>2, <2>3, FreshGood
  <2>5. QED
    BY <2>1, <2>4
<1>7. MaxVersion \in Nat \ {0} /\ MaxClock \in Nat \ {0}
  BY ResourcesAssumption DEF Objects!ResourcesAssumption
<1>8. /\ version \in 1..MaxVersion /\ clock \in 1..MaxClock
      /\ DOMAIN objects = Objects!Names /\ objects = [n \in Objects!Names |-> objects[n]]
      /\ cache = [n \in Objects!Names |-> cache[n]]
  BY <1>2, <1>3, <1>7
<1>9. QED
  BY <1>3, <1>4, <1>5, <1>6, <1>8 DEF ObjectsInv

\* Every step preserves the invariant, and no step loses an update.
LEMMA ObjectsStep ==
  ASSUME ObjectsInv, [Objects!Next]_(Objects!vars)
  PROVE  ObjectsInv' /\ NoneLost
<1>1. ASSUME NEW c \in Clients, Objects!Read(c) \/ Objects!Write(c) \/ Objects!Batch(c) \/ Objects!RollingBack(c)
      PROVE  ObjectsInv' /\ NoneLost
  BY <1>1, ReadOK, WriteOK, BatchOK, RollingBackOK
<1>2. ASSUME NEW n \in Objects!Names, Objects!Rollout(n) \/ Objects!Others(n) \/ Objects!Recreate(n)
      PROVE  ObjectsInv' /\ NoneLost
  <2>1. UNCHANGED ask
    BY <1>2 DEF Objects!Rollout, Objects!Others, Objects!Recreate, Objects!Environment
  <2>2. QED
    BY <1>2, <2>1, RolloutOK, OthersOK, RecreateOK, NobodyAnswered
<1>3. ASSUME NEW n \in Objects!Names, Objects!SyncCache(n)
      PROVE  ObjectsInv' /\ NoneLost
  <2>1. /\ UNCHANGED <<objects, sets, version, clock, ask, clusterExists>>
        /\ cache' = [cache EXCEPT ![n] = objects[n]]
    BY <1>3 DEF Objects!SyncCache, Objects!Environment
  <2>2. clock' \in 1..MaxClock /\ clusterExists' \in BOOLEAN /\ sets' \subseteq sets
    BY <2>1 DEF ObjectsInv
  <2>3. QED
    BY <2>1, <2>2, QuietOK, NobodyAnswered
<1>4. CASE Objects!Collect \/ Objects!Tick \/ Objects!RemoveCluster
  <2>1. UNCHANGED <<objects, version, cache, ask>>
    BY <1>4 DEF Objects!Collect, Objects!Tick, Objects!RemoveCluster, Objects!Environment
  <2>2. clock' \in 1..MaxClock
    BY <1>4, ResourcesAssumption
    DEF Objects!Collect, Objects!Tick, Objects!RemoveCluster, Objects!Environment, ObjectsInv,
        Objects!ResourcesAssumption
  <2>3. sets' \subseteq sets
    BY <1>4 DEF Objects!Collect, Objects!Tick, Objects!RemoveCluster, Objects!Environment
  <2>4. clusterExists' \in BOOLEAN
    BY <1>4, Zenon DEF Objects!Collect, Objects!Tick, Objects!RemoveCluster, Objects!Environment, ObjectsInv
  <2>5. QED
    BY <2>1, <2>2, <2>3, <2>4, QuietOK, NobodyAnswered
<1>5. CASE UNCHANGED Objects!vars
  <2>1. UNCHANGED <<objects, sets, version, cache, clusterExists, clock, ask>>
    BY <1>5 DEF Objects!vars
  <2>2. QED
    BY <2>1, QuietOK, NobodyAnswered DEF ObjectsInv
<1>6. QED
  BY <1>1, <1>2, <1>3, <1>4, <1>5 DEF Objects!Next

(* Objects and their copies are well formed, no version is later than the  *)
(* cluster's, and every request has answered the items before its next.    *)
THEOREM ObjectsInvariance == Objects!Spec => []ObjectsInv
<1>1. ObjectsInv /\ [Objects!Next]_(Objects!vars) => ObjectsInv'
  BY ObjectsStep
<1>2. QED
  BY <1>1, ObjectsInit, PTL DEF Objects!Spec

\* NoneLost, in the words of NoUnseenOverwrite.
LEMMA NoneLostIs ==
  ASSUME NoneLost, NEW n \in Objects!Names,
         Objects!Live(n) /\ Objects!Live(n)' /\ objects[n].uid = objects'[n].uid,
         NEW s \in Objects!Settings, NEW c \in Clients,
         objects[n].spec[s] # objects'[n].spec[s], ask'[c] # ask[c]
  PROVE  s \in ask'[c].named \/ ask'[c].base = objects[n].version
BY DEF NoneLost, Seen, Objects!Live, Objects!Absent

(* No update is lost: whatever requests, controllers and other clients do  *)
(* between two calls of a request, it changes the settings it means to     *)
(* set, and any other only if its author had read the object as it is (the *)
(* version a manifest carries, the merge a patch asks for).                *)
THEOREM NothingOverwritten == Objects!Spec => NoUnseenOverwrite
<1> DEFINE Spared == \A n \in Objects!Names : (Objects!Live(n) /\ Objects!Live(n)' /\ objects[n].uid = objects'[n].uid) =>
       \A s \in Objects!Settings, c \in Clients :
         (objects[n].spec[s] # objects'[n].spec[s] /\ ask'[c] # ask[c]) =>
           s \in ask'[c].named \/ ask'[c].base = objects[n].version
<1>1. ObjectsInv /\ [Objects!Next]_(Objects!vars) => [Spared]_(Objects!vars)
  <2>1. SUFFICES ASSUME ObjectsInv, [Objects!Next]_(Objects!vars) PROVE Spared
    OBVIOUS
  <2>2. NoneLost
    BY <2>1, ObjectsStep
  <2>3. QED
    BY <2>2, NoneLostIs
<1>2. QED
  BY <1>1, ObjectsInvariance, PTL DEF Objects!Spec, NoUnseenOverwrite, Objects!NoUnseenOverwrite

(* The sum that the runs check loses no update either: a step of it is a   *)
(* step on the objects or leaves them alone.                               *)
THEOREM NothingOverwrittenInSum == MCSpec => NoUnseenOverwrite
<1>1. MCInit => Objects!Init
  BY DEF MCInit
<1>2. [MCNext]_all => [Objects!Next]_(Objects!vars)
  BY DEF MCNext, all, objectVars, Objects!vars
<1>3. MCSpec => Objects!Spec
  BY <1>1, <1>2, PTL DEF MCSpec, Objects!Spec
<1>4. QED
  BY <1>3, NothingOverwritten

(* The objects, their caches, the ReplicaSets and the requests are well    *)
(* typed, and no version is later than the cluster's.                      *)
THEOREM ObjectsTypeCorrect == Objects!Spec => []Objects!TypeOK
<1>1. ObjectsInv => Objects!TypeOK
  <2>1. SUFFICES ASSUME ObjectsInv PROVE Objects!TypeOK
    OBVIOUS
  <2>2. ASSUME NEW x, Stored(x)
        PROVE  x.version \in 1..version /\ x.uid <= x.version /\ x.spec \in [Objects!Settings -> Nat]
    BY <2>1, <2>2, ResourcesAssumption
    DEF Stored, ObjectType, Manifests, ObjectsInv, Objects!ResourcesAssumption
  <2>3. \A n \in Objects!Names : Objects!Live(n) =>
          /\ objects[n].version \in 1..version /\ objects[n].uid <= objects[n].version
          /\ objects[n].spec \in [Objects!Settings -> Nat]
    BY <2>1, <2>2 DEF ObjectsInv, Objects!Live
  <2>4. \A n \in Objects!Names : cache[n] = Objects!Absent \/ cache[n].version <= version
    BY <2>1 DEF ObjectsInv, Stored
  <2>5. version \in 0..MaxVersion /\ clock \in 1..MaxClock
    BY <2>1, ResourcesAssumption DEF ObjectsInv, Objects!ResourcesAssumption
  <2>6. \A rs \in sets : rs.revision \in 1..MaxRevision
    <3>1. MaxRevision \in Nat
      BY ResourcesAssumption DEF Objects!ResourcesAssumption
    <3>2. QED
      BY <2>1, <3>1 DEF ObjectsInv, ReplicaSetType
  <2>7. ASSUME NEW c \in Clients
        PROVE  ask[c].next \in 1..Len(ask[c].items) + 1 /\ Len(ask[c].done) = ask[c].next - 1
    <3>1. GoodRequest(ask[c])
      BY <2>1 DEF ObjectsInv
    <3>2. ask[c].next \in Nat \ {0} /\ Len(ask[c].items) \in Nat /\ ask[c].next <= Len(ask[c].items) + 1
      BY <3>1, LenProperties DEF GoodRequest
    <3>3. QED
      BY <3>1, <3>2 DEF GoodRequest
  <2>8. clusterExists \in BOOLEAN
    BY <2>1, Zenon DEF ObjectsInv
  <2>9. QED
    BY <2>3, <2>4, <2>5, <2>6, <2>7, <2>8, Zenon DEF Objects!TypeOK
<1>2. QED
  BY <1>1, ObjectsInvariance, PTL

(* A batch that is over has answered each of its items, and says of none   *)
(* that it succeeded unless the API server applied it, however many items  *)
(* failed before it (resource_handler.go, BatchDelete and BatchRestart).   *)
THEOREM BatchesAnswerEach == Objects!Spec => []Objects!BatchAnswersEach
<1>1. ObjectsInv => Objects!BatchAnswersEach
  <2>1. SUFFICES ASSUME ObjectsInv, NEW c \in Clients, Objects!Free(c)
                 PROVE  /\ Len(ask[c].results) = Len(ask[c].items)
                        /\ \A i \in DOMAIN ask[c].results : ask[c].results[i] => ask[c].done[i] > 0
    BY Zenon DEF Objects!BatchAnswersEach
  <2> DEFINE r == ask[c]
  <2>2. GoodRequest(r) /\ r.next > Len(r.items)
    BY <2>1 DEF ObjectsInv, Objects!Free
  <2> HIDE DEF r
  <2>3. /\ r.items \in Seq(Objects!Names) /\ r.results \in Seq(BOOLEAN) /\ r.next \in Nat
        /\ r.next <= Len(r.items) + 1 /\ Len(r.results) = r.next - 1
        /\ \A i \in 1..Len(r.results) : r.results[i] => r.done[i] > 0
    BY <2>2 DEF GoodRequest
  <2>4. Len(r.items) \in Nat /\ DOMAIN r.results = 1..Len(r.results)
    BY <2>3, LenProperties
  <2>5. Len(r.results) = Len(r.items)
    BY <2>2, <2>3, <2>4
  <2>6. QED
    BY <2>3, <2>4, <2>5 DEF r
<1>2. QED
  BY <1>1, ObjectsInvariance, PTL
=============================================================================
