-------------------------- MODULE Requests_proofs --------------------------
(***************************************************************************)
(* Proofs about the parts that MCRequests composes, for any values of      *)
(* their constants.                                                        *)
(*                                                                         *)
(* The assistant (AISessions): a change is applied at most once and only   *)
(* as its owner approved it, and once more for every retry, the model is   *)
(* never sent an unanswered call, and an unexpired change is the only      *)
(* thing that takes a place.  The audit log (Log, an instance of Server): the    *)
(* order of shutdown keeps every entry and never writes to a closed        *)
(* database.  Access (Rights): the assistant changes nothing for a user    *)
(* that this user could not change over HTTP.                              *)
(***************************************************************************)
EXTENDS MCRequests, TLAPS, FiniteSetTheorems, SequenceTheorems

RoleNames == {"admin", "editor", "viewer"}
TurnType == [pc : {"stream", "tools"}, user : Users, role : RoleNames, iteration : Nat,
             empty : Nat, calls : Seq(Call), unanswered : Int, pending : Changes \cup {"none"}]
SessionType == [id : Nat \ {0}, user : Users, change : Changes, unanswered : Nat, expired : BOOLEAN]
OpType == [session : Nat \ {0}, user : Users, change : Changes, attempt : Nat,
           pc : {"queued", "running", "failed"}]
ApprovalType == [session : Nat \ {0}, owner : Users, by : Users, change : Changes]

Running == {t \in Turns : turn[t] # NoTurn}

\* The types of all variables, and how many ids the chats so far may use.
Types ==
  /\ role \in [Users -> RoleNames] /\ ready \in BOOLEAN
  /\ turn \in [Turns -> TurnType \cup {NoTurn}]
  /\ session \subseteq SessionType /\ IsFiniteSet(session)
  /\ op \subseteq OpType /\ IsFiniteSet(op)
  /\ ids \in Nat /\ chats \in Nat /\ events \in Nat
  /\ approved \subseteq ApprovalType /\ IsFiniteSet(approved)
  /\ retried \in [Ids -> Nat] /\ applied \in [Ids -> Nat]
  /\ IsFiniteSet(Running) /\ ids + Cardinality(Running) <= chats /\ chats <= MaxChats

\* A turn's calls are the results it still owes, apart from a pending one.
Counted(k) ==
  IF k.pc = "stream"
  THEN k.unanswered = 0 /\ k.pending = "none"
  ELSE k.unanswered = Len(k.calls) + (IF k.pending = "none" THEN 0 ELSE 1)
CallsAreCounted == \A t \in Running : Counted(turn[t])

\* A change that waits has its own number, nobody has approved it, and its
\* call is the only one without a result.
SessionsAreNew ==
  /\ \A s \in session :
       /\ s.id <= ids /\ s.unanswered = 1
       /\ \A x \in session : x.id = s.id => x = s
       /\ \A a \in approved : a.session # s.id
       /\ \A o \in op : o.session # s.id
  /\ \A a \in approved : a.session <= ids /\ a.by = a.owner

\* The operations of a session that may still be applied without a retry.
Live(i) == {o \in op : o.session = i /\ o.pc # "failed"}

\* Operations come from approvals, and what was applied or may still be is
\* paid for by the approval and the retries.
OperationsAreApproved ==
  /\ \A o \in op : o.session <= ids /\ \E a \in approved : a.session = o.session
  /\ \A i \in Ids : applied[i] + Cardinality(Live(i)) <= 1 + retried[i]

AppliedWasApproved == \A i \in Ids : applied[i] # 0 => \E a \in approved : a.session = i

Places ==
  /\ Cardinality(session) <= MaxPending
  /\ \A u \in Users : Cardinality({s \in session : s.user = u}) <= MaxPerUser

IInv ==
  /\ Types /\ CallsAreCounted /\ SessionsAreNew /\ OperationsAreApproved /\ AppliedWasApproved
  /\ Places

-----------------------------------------------------------------------------
(* Turns.                                                                  *)

LEMMA NoTurnIsNone == NoTurn \notin TurnType
<1>1. \A k \in TurnType : k.pc \in {"stream", "tools"}
  BY DEF TurnType
<1>2. NoTurn.pc = "none"
  BY DEF NoTurn
<1>3. QED
  BY <1>1, <1>2

\* What IInv says of a turn.
LEMMA TurnFacts ==
  ASSUME IInv, NEW t \in Turns, turn[t].pc # "none" \/ turn[t] # NoTurn
  PROVE  turn[t] \in TurnType /\ t \in Running /\ Counted(turn[t]) /\ turn[t] # NoTurn
<1>1. turn[t] # NoTurn
  BY DEF NoTurn
<1>2. QED
  BY <1>1 DEF IInv, Types, CallsAreCounted, Running

\* The copies of a turn, field by field.
LEMMA StreamingTurn ==
  ASSUME NEW k \in TurnType, NEW m \in Nat, NEW x, x = [k EXCEPT !.pc = "stream", !.iteration = m]
  PROVE  x \in TurnType /\ x.pc = "stream" /\ x.unanswered = k.unanswered /\ x.pending = k.pending
BY DEF TurnType

LEMMA EmptyTurn ==
  ASSUME NEW k \in TurnType, NEW m \in Nat, NEW x, x = [k EXCEPT !.empty = m]
  PROVE  x \in TurnType /\ x.pc = k.pc /\ x.unanswered = k.unanswered /\ x.pending = k.pending
BY DEF TurnType

\* The next round of the loop owes nothing, if the last one has answered.
LEMMA AgainCounts ==
  ASSUME NEW k \in TurnType, k.unanswered = 0, k.pending = "none"
  PROVE  Again(k) = NoTurn \/ (Again(k) \in TurnType /\ Counted(Again(k)))
<1> DEFINE x == [k EXCEPT !.pc = "stream", !.iteration = NextIteration(k)]
<1>1. NextIteration(k) \in Nat
  BY DEF NextIteration, TurnType
<1>2. x \in TurnType /\ x.pc = "stream" /\ x.unanswered = k.unanswered /\ x.pending = k.pending
  BY <1>1, StreamingTurn
<1>3. Again(k) \in {x, NoTurn}
  BY DEF Again
<1> HIDE DEF x
<1>4. QED
  BY <1>2, <1>3 DEF Counted

\* How many turns run, when one begins, goes on or ends.
LEMMA RunningTurns ==
  ASSUME Types, NEW t \in Turns, NEW k, k \in TurnType \/ k = NoTurn,
         turn' = [turn EXCEPT ![t] = k]
  PROVE  /\ turn' \in [Turns -> TurnType \cup {NoTurn}]
         /\ turn'[t] = k /\ \A x \in Turns : x # t => turn'[x] = turn[x]
         /\ Running' = IF k = NoTurn THEN Running \ {t} ELSE Running \cup {t}
         /\ IsFiniteSet(Running') /\ Cardinality(Running') \in Nat
         /\ k = NoTurn /\ t \in Running => Cardinality(Running') = Cardinality(Running) - 1
         /\ k # NoTurn /\ t \notin Running => Cardinality(Running') = Cardinality(Running) + 1
         /\ k # NoTurn /\ t \in Running => Running' = Running
<1>1. /\ turn' \in [Turns -> TurnType \cup {NoTurn}]
      /\ turn'[t] = k /\ \A x \in Turns : x # t => turn'[x] = turn[x]
  BY DEF Types
<1>2. Running' = IF k = NoTurn THEN Running \ {t} ELSE Running \cup {t}
  BY <1>1 DEF Running
<1>3. IsFiniteSet(Running)
  BY DEF Types
<1>4. IsFiniteSet(Running')
  BY <1>2, <1>3, FS_AddElement, FS_RemoveElement
<1>5. Cardinality(Running') \in Nat
  BY <1>4, FS_CardinalityType
<1>6. k = NoTurn /\ t \in Running => Cardinality(Running') = Cardinality(Running) - 1
  BY <1>2, <1>3, FS_RemoveElement
<1>7. k # NoTurn /\ t \notin Running => Cardinality(Running') = Cardinality(Running) + 1
  BY <1>2, <1>3, FS_AddElement
<1>8. QED
  BY <1>1, <1>2, <1>4, <1>5, <1>6, <1>7

\* A turn that goes on, or ends without a change that waits.
LEMMA TurnIInv ==
  ASSUME IInv, NEW t \in Turns, turn[t] # NoTurn, NEW k, turn' = [turn EXCEPT ![t] = k],
         k = NoTurn \/ (k \in TurnType /\ Counted(k)),
         UNCHANGED <<role, ready, session, op, ids, chats, events, approved, retried, applied>>
  PROVE  IInv'
<1>1. Types /\ CallsAreCounted /\ SessionsAreNew /\ OperationsAreApproved /\ AppliedWasApproved /\ Places
  BY DEF IInv
<1>2. t \in Running
  BY DEF Running
<1>3. /\ turn' \in [Turns -> TurnType \cup {NoTurn}]
      /\ turn'[t] = k /\ \A x \in Turns : x # t => turn'[x] = turn[x]
      /\ Running' = IF k = NoTurn THEN Running \ {t} ELSE Running \cup {t}
      /\ IsFiniteSet(Running') /\ Cardinality(Running') \in Nat
      /\ Cardinality(Running') \in {Cardinality(Running), Cardinality(Running) - 1}
  BY <1>1, <1>2, RunningTurns
<1>4. Cardinality(Running) \in Nat
  BY <1>1, FS_CardinalityType DEF Types
<1>5. Types'
  <2>1. ids' + Cardinality(Running') <= chats'
    BY <1>1, <1>3, <1>4 DEF Types
  <2>2. QED
    BY <1>1, <1>3, <2>1 DEF Types
<1>6. CallsAreCounted'
  <2>1. ASSUME NEW x \in Running' PROVE Counted(turn'[x])
    BY <1>1, <1>2, <1>3 DEF CallsAreCounted, Running
  <2>2. QED
    BY <2>1 DEF CallsAreCounted, Counted
<1>7. SessionsAreNew' /\ OperationsAreApproved' /\ AppliedWasApproved' /\ Places'
  BY <1>1 DEF SessionsAreNew, OperationsAreApproved, Live, AppliedWasApproved, Places
<1>8. QED
  BY <1>5, <1>6, <1>7 DEF IInv

\* The replies a stream can hold.
LEMMA RepliesAreCalls == AIAssumption => \A calls \in Replies : calls \in Seq(Call) /\ Len(calls) \in Nat
BY LenProperties DEF Replies, AIAssumption

LEMMA StreamedIInv ==
  ASSUME AIAssumption, IInv, NEW t \in Turns, Streamed(t)
  PROVE  IInv'
<1> DEFINE k == turn[t]
<1>1. k.pc = "stream" /\ UNCHANGED <<role, ready, session, op, ids, chats, events, approved, retried, applied>>
  BY DEF Streamed, people, past
<1>2. k \in TurnType /\ k # NoTurn /\ Counted(k)
  BY <1>1, TurnFacts
<1>3. k.unanswered = 0 /\ k.pending = "none"
  BY <1>1, <1>2 DEF Counted
<1>4. CASE turn' = [turn EXCEPT ![t] = NoTurn]
  BY <1>1, <1>2, <1>4, TurnIInv
<1>5. CASE turn' = [turn EXCEPT ![t] =
                      IF k.empty + 1 >= MaxEmpty THEN NoTurn ELSE Again([k EXCEPT !.empty = @ + 1])]
  <2> DEFINE x == [k EXCEPT !.empty = @ + 1]
             y == IF k.empty + 1 >= MaxEmpty THEN NoTurn ELSE Again(x)
  <2>1. k.empty + 1 \in Nat
    BY <1>2 DEF TurnType
  <2>2. x \in TurnType /\ x.unanswered = 0 /\ x.pending = "none"
    BY <1>2, <1>3, <2>1, EmptyTurn
  <2> HIDE DEF x
  <2>3. y = NoTurn \/ (y \in TurnType /\ Counted(y))
    BY <2>2, AgainCounts
  <2>4. turn' = [turn EXCEPT ![t] = y]
    BY <1>5 DEF x
  <2> HIDE DEF y
  <2>5. QED
    BY <1>1, <1>2, <2>3, <2>4, TurnIInv
<1>6. CASE \E calls \in Replies :
             turn' = [turn EXCEPT ![t] =
               [k EXCEPT !.pc = "tools", !.calls = calls, !.empty = 0, !.unanswered = @ + Len(calls)]]
  <2>1. PICK calls \in Replies :
          turn' = [turn EXCEPT ![t] =
            [k EXCEPT !.pc = "tools", !.calls = calls, !.empty = 0, !.unanswered = @ + Len(calls)]]
    BY <1>6
  <2> DEFINE n == k.unanswered + Len(calls)
             x == [k EXCEPT !.pc = "tools", !.calls = calls, !.empty = 0, !.unanswered = n]
  <2>2. calls \in Seq(Call) /\ Len(calls) \in Nat
    BY RepliesAreCalls
  <2>3. n \in Int /\ n = Len(calls)
    BY <1>3, <2>2
  <2>4. turn' = [turn EXCEPT ![t] = x]
    BY <2>1
  <2>5. x = [k EXCEPT !.pc = "tools", !.calls = calls, !.empty = 0, !.unanswered = n]
    OBVIOUS
  <2> HIDE DEF x, n
  <2>6. /\ x \in TurnType /\ x.pc = "tools" /\ x.calls = calls /\ x.unanswered = n
        /\ x.pending = k.pending
    <3> HIDE DEF k
    <3> QED
      BY <1>2, <2>2, <2>3, <2>5 DEF TurnType
  <2>7. Counted(x)
    BY <1>3, <2>2, <2>3, <2>6 DEF Counted
  <2>8. QED
    BY <1>1, <1>2, <2>4, <2>6, <2>7, TurnIInv
<1>7. QED
  BY <1>4, <1>5, <1>6 DEF Streamed

LEMMA CallToolIInv ==
  ASSUME AIAssumption, IInv, NEW t \in Turns, CallTool(t)
  PROVE  IInv'
<1> DEFINE k == turn[t]
           c == Head(k.calls)
           n == IF Answers(k, c) THEN k.unanswered - 1 ELSE k.unanswered
           pending == IF KeepsPending(k, c) THEN c ELSE k.pending
           x == [k EXCEPT !.calls = Tail(k.calls), !.unanswered = n, !.pending = pending]
<1>1. /\ k.pc = "tools" /\ k.calls # <<>>
      /\ UNCHANGED <<role, ready, session, op, ids, chats, events, approved, retried, applied>>
  BY DEF CallTool, people, past
<1>2. k \in TurnType /\ k # NoTurn /\ Counted(k)
  BY <1>1, TurnFacts
<1>3. /\ k.calls \in Seq(Call) /\ k.unanswered \in Int /\ k.pending \in Changes \cup {"none"}
  BY <1>2 DEF TurnType
<1>4. /\ Tail(k.calls) \in Seq(Call) /\ Len(Tail(k.calls)) = Len(k.calls) - 1 /\ c \in Call
      /\ Len(k.calls) \in Nat
  BY <1>1, <1>3, LenProperties
<1>5. KeepsPending(k, c) => c \in Changes /\ k.pending = "none"
  BY <1>4 DEF KeepsPending, Call
<1>6. /\ KeepsPending(k, c) => n = k.unanswered /\ pending = c
      /\ ~KeepsPending(k, c) => n = k.unanswered - 1 /\ pending = k.pending
  BY DEF Answers
<1>7. x = [k EXCEPT !.calls = Tail(k.calls), !.unanswered = n, !.pending = pending]
  OBVIOUS
<1>8. turn' = [turn EXCEPT ![t] = x]
  <2>1. turn \in [Turns -> TurnType \cup {NoTurn}]
    BY DEF IInv, Types
  <2>2. QED
    BY <1>2, <2>1 DEF CallTool
<1> HIDE DEF x, n, pending, c, k
<1>9. n \in Int /\ pending \in Changes \cup {"none"}
  BY <1>3, <1>5, <1>6
<1>10. n = Len(Tail(k.calls)) + (IF pending = "none" THEN 0 ELSE 1)
  <2>1. k.unanswered = Len(k.calls) + (IF k.pending = "none" THEN 0 ELSE 1)
    BY <1>1, <1>2 DEF Counted
  <2>2. "none" \notin Changes
    BY DEF AIAssumption
  <2>3. CASE KeepsPending(k, c)
    <3>1. n = k.unanswered /\ pending # "none" /\ k.pending = "none"
      BY <1>5, <1>6, <2>2, <2>3
    <3>2. n = Len(k.calls)
      BY <1>4, <2>1, <3>1
    <3>3. n = Len(Tail(k.calls)) + 1
      BY <1>4, <3>2
    <3>4. QED
      BY <3>1, <3>3
  <2>4. CASE ~KeepsPending(k, c)
    <3>1. n = k.unanswered - 1 /\ pending = k.pending
      BY <1>6, <2>4
    <3>2. CASE k.pending = "none"
      BY <1>4, <2>1, <3>1, <3>2
    <3>3. CASE k.pending # "none"
      BY <1>4, <2>1, <3>1, <3>3
    <3>4. QED
      BY <3>2, <3>3
  <2>5. QED
    BY <2>3, <2>4
<1>11. x \in TurnType /\ x.pc = k.pc /\ x.calls = Tail(k.calls) /\ x.unanswered = n /\ x.pending = pending
  BY <1>2, <1>4, <1>7, <1>9 DEF TurnType
<1>12. Counted(x)
  BY <1>1, <1>10, <1>11 DEF Counted
<1>13. QED
  BY <1>1, <1>2, <1>8, <1>11, <1>12, TurnIInv DEF k

LEMMA CallsDoneIInv ==
  ASSUME IInv, NEW t \in Turns, CallsDone(t)
  PROVE  IInv'
<1>1. /\ turn[t].pc = "tools" /\ turn[t].calls = <<>> /\ turn[t].pending = "none"
      /\ turn' = [turn EXCEPT ![t] = Again(turn[t])]
      /\ UNCHANGED <<role, ready, session, op, ids, chats, events, approved, retried, applied>>
  BY DEF CallsDone, people, past
<1>2. turn[t] \in TurnType /\ turn[t] # NoTurn /\ Counted(turn[t])
  BY <1>1, TurnFacts
<1>3. turn[t].unanswered = 0
  BY <1>1, <1>2, EmptySeq DEF Counted
<1>4. Again(turn[t]) = NoTurn \/ (Again(turn[t]) \in TurnType /\ Counted(Again(turn[t])))
  BY <1>1, <1>2, <1>3, AgainCounts
<1>5. QED
  BY <1>1, <1>2, <1>4, TurnIInv

\* Chat: a turn begins.
LEMMA ChatIInv ==
  ASSUME AIAssumption, IInv, NEW t \in Turns, NEW u \in Users, Chat(t, u)
  PROVE  IInv'
<1> DEFINE k == NewTurn(u, 0)
<1>1. /\ turn[t] = NoTurn /\ chats < MaxChats /\ chats' = chats + 1 /\ turn' = [turn EXCEPT ![t] = k]
      /\ UNCHANGED <<role, ready, session, op, ids, events, approved, retried, applied>>
  BY DEF Chat, people, past
<1>2. Types /\ CallsAreCounted /\ SessionsAreNew /\ OperationsAreApproved /\ AppliedWasApproved /\ Places
  BY DEF IInv
<1>3. k \in TurnType /\ Counted(k)
  BY <1>2, EmptySeq DEF NewTurn, TurnType, Types, Counted
<1> HIDE DEF k
<1>4. t \notin Running /\ k # NoTurn
  BY <1>1, <1>3, NoTurnIsNone DEF Running
<1>5. /\ turn' \in [Turns -> TurnType \cup {NoTurn}]
      /\ turn'[t] = k /\ \A x \in Turns : x # t => turn'[x] = turn[x]
      /\ Running' = Running \cup {t} /\ IsFiniteSet(Running')
      /\ Cardinality(Running') = Cardinality(Running) + 1
  BY <1>1, <1>2, <1>3, <1>4, RunningTurns
<1>6. Cardinality(Running) \in Nat /\ MaxChats \in Nat
  BY <1>2, FS_CardinalityType DEF Types, AIAssumption
<1>7. Types'
  <2>1. ids' + Cardinality(Running') <= chats' /\ chats' <= MaxChats /\ chats' \in Nat
    BY <1>1, <1>2, <1>5, <1>6 DEF Types
  <2>2. QED
    BY <1>1, <1>2, <1>5, <2>1 DEF Types
<1>8. CallsAreCounted'
  <2>1. ASSUME NEW x \in Running' PROVE Counted(turn'[x])
    BY <1>2, <1>3, <1>5 DEF CallsAreCounted, Running
  <2>2. QED
    BY <2>1 DEF CallsAreCounted, Counted
<1>9. SessionsAreNew' /\ OperationsAreApproved' /\ AppliedWasApproved' /\ Places'
  BY <1>1, <1>2 DEF SessionsAreNew, OperationsAreApproved, Live, AppliedWasApproved, Places
<1>10. QED
  BY <1>7, <1>8, <1>9 DEF IInv

-----------------------------------------------------------------------------
(* Changes that wait for approval.                                         *)

\* The places only become free when changes go, or stay the same when one of
\* them expires.
LEMMA FewerPlaces ==
  ASSUME NEW S, IsFiniteSet(S), NEW T \in SUBSET S,
         Cardinality(S) <= MaxPending, MaxPending \in Nat, MaxPerUser \in Nat,
         \A u \in Users : Cardinality({s \in S : s.user = u}) <= MaxPerUser
  PROVE  /\ IsFiniteSet(T) /\ Cardinality(T) <= MaxPending
         /\ \A u \in Users : Cardinality({s \in T : s.user = u}) <= MaxPerUser
<1>1. IsFiniteSet(T) /\ Cardinality(T) <= Cardinality(S)
  BY FS_Subset
<1>2. Cardinality(T) \in Nat /\ Cardinality(S) \in Nat
  BY <1>1, FS_CardinalityType
<1>3. ASSUME NEW u \in Users
      PROVE  Cardinality({s \in T : s.user = u}) <= MaxPerUser
  <2> DEFINE A == {s \in S : s.user = u}
             B == {s \in T : s.user = u}
  <2>1. A \in SUBSET S /\ B \in SUBSET A
    OBVIOUS
  <2>2. IsFiniteSet(A)
    BY <2>1, FS_Subset
  <2>3. IsFiniteSet(B) /\ Cardinality(B) <= Cardinality(A)
    BY <2>1, <2>2, FS_Subset
  <2>4. Cardinality(A) \in Nat /\ Cardinality(B) \in Nat
    BY <2>2, <2>3, FS_CardinalityType
  <2>5. Cardinality(A) <= MaxPerUser
    OBVIOUS
  <2> HIDE DEF A
  <2>6. QED
    BY <2>3, <2>4, <2>5
<1>4. QED
  BY <1>1, <1>2, <1>3

LEMMA OneMore ==
  ASSUME NEW S, IsFiniteSet(S), NEW s
  PROVE  /\ IsFiniteSet(S \cup {s}) /\ Cardinality(S) \in Nat /\ Cardinality(S \cup {s}) \in Nat
         /\ Cardinality(S \cup {s}) <= Cardinality(S) + 1
<1>1. IsFiniteSet(S \cup {s})
  BY FS_AddElement
<1>2. Cardinality(S) \in Nat /\ Cardinality(S \cup {s}) \in Nat
  BY <1>1, FS_CardinalityType
<1>3. Cardinality(S \cup {s}) = IF s \in S THEN Cardinality(S) ELSE Cardinality(S) + 1
  BY FS_AddElement
<1>4. QED
  BY <1>1, <1>2, <1>3

LEMMA OneMorePlace ==
  ASSUME NEW S, IsFiniteSet(S), NEW s, s.user \in Users, HasRoom(S, s.user),
         Cardinality(S) <= MaxPending, MaxPending \in Nat, MaxPerUser \in Nat,
         \A u \in Users : Cardinality({x \in S : x.user = u}) <= MaxPerUser
  PROVE  /\ IsFiniteSet(S \cup {s}) /\ Cardinality(S \cup {s}) <= MaxPending
         /\ \A u \in Users : Cardinality({x \in S \cup {s} : x.user = u}) <= MaxPerUser
<1>1. IsFiniteSet(S \cup {s}) /\ Cardinality(S \cup {s}) <= Cardinality(S) + 1 /\ Cardinality(S) \in Nat
      /\ Cardinality(S \cup {s}) \in Nat
  BY OneMore
<1>2. Cardinality(S \cup {s}) <= MaxPending
  BY <1>1 DEF HasRoom
<1>3. ASSUME NEW u \in Users
      PROVE  Cardinality({x \in S \cup {s} : x.user = u}) <= MaxPerUser
  <2> DEFINE A == {x \in S : x.user = u}
             B == {x \in S \cup {s} : x.user = u}
  <2>1. A \in SUBSET S
    OBVIOUS
  <2>2. IsFiniteSet(A)
    BY <2>1, FS_Subset
  <2>3. Cardinality(A) <= MaxPerUser /\ (s.user = u => Cardinality(A) < MaxPerUser)
    BY DEF HasRoom
  <2>4. B = IF s.user = u THEN A \cup {s} ELSE A
    OBVIOUS
  <2> HIDE DEF A, B
  <2>5. Cardinality(A) \in Nat /\ Cardinality(A \cup {s}) <= Cardinality(A) + 1
        /\ Cardinality(A \cup {s}) \in Nat
    BY <2>2, OneMore
  <2>6. Cardinality(B) <= MaxPerUser
    BY <2>3, <2>4, <2>5
  <2>7. QED
    BY <2>6 DEF B
<1>4. QED
  BY <1>1, <1>2, <1>3

\* SaveSession: the turn ends, and its change waits if there is room.
LEMMA SaveIInv ==
  ASSUME AIAssumption, IInv, NEW t \in Turns, SaveSession(t)
  PROVE  IInv'
<1> DEFINE k == turn[t]
           kept == Evict(session)
           s == [id |-> ids + 1, user |-> k.user, change |-> k.pending,
                 unanswered |-> k.unanswered, expired |-> FALSE]
<1>1. /\ k.pc = "tools" /\ k.calls = <<>> /\ k.pending # "none"
      /\ turn' = [turn EXCEPT ![t] = NoTurn]
      /\ UNCHANGED <<role, ready, op, chats, events, approved, retried, applied>>
  BY DEF SaveSession, people, past
<1>2. Types /\ CallsAreCounted /\ SessionsAreNew /\ OperationsAreApproved /\ AppliedWasApproved /\ Places
  BY DEF IInv
<1>3. k \in TurnType /\ t \in Running /\ Counted(k)
  BY <1>1, TurnFacts
<1>4. k.user \in Users /\ k.pending \in Changes /\ k.unanswered = 1
  BY <1>1, <1>3, EmptySeq DEF TurnType, Counted
<1>5. \/ HasRoom(kept, k.user) /\ session' = kept \cup {s} /\ ids' = ids + 1
      \/ session' = kept /\ ids' = ids
  BY DEF SaveSession
<1>6. kept \subseteq session
  BY DEF Evict
<1>7. s \in SessionType /\ s.id = ids + 1 /\ s.user = k.user /\ s.unanswered = 1
  BY <1>2, <1>4 DEF SessionType, Types
<1> HIDE DEF s, kept, k
<1>8. /\ turn' \in [Turns -> TurnType \cup {NoTurn}]
      /\ \A x \in Turns : x # t => turn'[x] = turn[x]
      /\ Running' = Running \ {t} /\ IsFiniteSet(Running')
      /\ Cardinality(Running') = Cardinality(Running) - 1
  BY <1>1, <1>2, <1>3, RunningTurns DEF k
<1>9. Cardinality(Running) \in Nat /\ MaxPending \in Nat /\ MaxPerUser \in Nat
  BY <1>2, FS_CardinalityType DEF Types, AIAssumption
<1>10. /\ IsFiniteSet(kept) /\ Cardinality(kept) <= MaxPending
       /\ \A u \in Users : Cardinality({x \in kept : x.user = u}) <= MaxPerUser
  BY <1>2, <1>6, <1>9, FewerPlaces DEF Places, Types
<1>11. /\ IsFiniteSet(session') /\ Cardinality(session') <= MaxPending
       /\ \A u \in Users : Cardinality({x \in session' : x.user = u}) <= MaxPerUser
  <2>1. CASE HasRoom(kept, k.user) /\ session' = kept \cup {s} /\ ids' = ids + 1
    BY <1>4, <1>7, <1>9, <1>10, <2>1, OneMorePlace
  <2>2. CASE session' = kept /\ ids' = ids
    BY <1>10, <2>2
  <2>3. QED
    BY <1>5, <2>1, <2>2
<1>12. Types'
  <2>1. ids' \in Nat /\ ids' + Cardinality(Running') <= chats'
    BY <1>1, <1>2, <1>5, <1>8, <1>9 DEF Types
  <2>2. session' \subseteq SessionType
    BY <1>2, <1>5, <1>6, <1>7 DEF Types
  <2>3. QED
    BY <1>1, <1>2, <1>8, <1>11, <2>1, <2>2 DEF Types
<1>13. CallsAreCounted'
  <2>1. ASSUME NEW x \in Running' PROVE Counted(turn'[x])
    BY <1>2, <1>8 DEF CallsAreCounted, Running
  <2>2. QED
    BY <2>1 DEF CallsAreCounted, Counted
<1>14. SessionsAreNew' /\ OperationsAreApproved'
  <2>1. ids \in Nat /\ \A x \in session : x.id \in Nat
    BY <1>2 DEF Types, SessionType
  <2>2. /\ \A a \in approved : a.session \in Nat /\ a.session <= ids
        /\ \A o \in op : o.session \in Nat /\ o.session <= ids
        /\ \A x \in session : x.id <= ids
    BY <1>2 DEF Types, SessionsAreNew, OperationsAreApproved, ApprovalType, OpType
  <2>3. ids <= ids' /\ ids' \in Nat
    BY <1>5, <2>1
  <2>4. ASSUME NEW x \in session'
        PROVE  /\ x.id <= ids' /\ x.unanswered = 1
               /\ \A y \in session' : y.id = x.id => y = x
               /\ \A a \in approved : a.session # x.id
               /\ \A o \in op : o.session # x.id
    <3>1. CASE x \in kept
      <4>1. x \in session /\ x.id <= ids /\ x.unanswered = 1
        BY <1>2, <1>6, <3>1 DEF SessionsAreNew
      <4>2. \A y \in session' : y.id = x.id => y = x
        BY <1>2, <1>5, <1>6, <1>7, <2>1, <4>1 DEF SessionsAreNew
      <4>3. QED
        BY <1>2, <2>1, <2>3, <4>1, <4>2 DEF SessionsAreNew
    <3>2. CASE x = s /\ session' = kept \cup {s} /\ ids' = ids + 1
      <4>1. \A y \in kept : y.id <= ids /\ y.id \in Nat
        BY <1>6, <2>1, <2>2
      <4>2. QED
        BY <1>7, <2>1, <2>2, <3>2, <4>1
    <3>3. QED
      BY <1>5, <3>1, <3>2
  <2>5. \A a \in approved : a.session <= ids' /\ a.by = a.owner
    BY <1>2, <2>1, <2>2, <2>3 DEF SessionsAreNew
  <2>6. \A o \in op : o.session <= ids'
    BY <2>1, <2>2, <2>3
  <2>7. QED
    BY <1>1, <1>2, <2>4, <2>5, <2>6 DEF SessionsAreNew, OperationsAreApproved, Live
<1>15. AppliedWasApproved' /\ Places'
  BY <1>1, <1>2, <1>11 DEF AppliedWasApproved, Places
<1>16. QED
  BY <1>12, <1>13, <1>14, <1>15 DEF IInv

\* A change that waits is numbered, and nothing of its number was applied.
LEMMA SessionFacts ==
  ASSUME AIAssumption, IInv, NEW s \in session
  PROVE  /\ s \in SessionType /\ s.id \in Ids /\ s.id \in Nat /\ s.user \in Users /\ s.change \in Changes
         /\ applied[s.id] = 0
<1>1. s \in SessionType /\ s.id <= ids /\ \A a \in approved : a.session # s.id
  BY DEF IInv, Types, SessionsAreNew
<1>2. s.id \in Nat \ {0} /\ s.user \in Users /\ s.change \in Changes
  BY <1>1 DEF SessionType
<1>3. ids <= MaxChats /\ ids \in Nat /\ MaxChats \in Nat
  <2>1. Cardinality(Running) \in Nat
    BY FS_CardinalityType DEF IInv, Types
  <2>2. QED
    BY <2>1 DEF IInv, Types, AIAssumption
<1>4. s.id \in Ids
  BY <1>1, <1>2, <1>3 DEF Ids
<1>5. applied[s.id] = 0
  BY <1>1, <1>4 DEF IInv, AppliedWasApproved
<1>6. QED
  BY <1>1, <1>2, <1>4, <1>5

\* How many operations of a session are live: a finite number.
LEMMA LiveIsFinite ==
  ASSUME Types, NEW i
  PROVE  IsFiniteSet(Live(i)) /\ Cardinality(Live(i)) \in Nat
<1>1. Live(i) \in SUBSET op /\ IsFiniteSet(op)
  BY DEF Live, Types
<1>2. QED
  BY <1>1, FS_Subset, FS_CardinalityType

\* Fewer live operations keep what was paid for.
LEMMA SameBudget ==
  ASSUME Types, \A i \in Ids : Live(i)' \in SUBSET Live(i), UNCHANGED <<retried, applied>>,
         \A i \in Ids : applied[i] + Cardinality(Live(i)) <= 1 + retried[i]
  PROVE  \A i \in Ids : applied'[i] + Cardinality(Live(i)') <= 1 + retried'[i]
<1> SUFFICES ASSUME NEW i \in Ids
             PROVE  applied[i] + Cardinality(Live(i)') <= 1 + retried[i]
  OBVIOUS
<1> DEFINE L == Live(i)
           M == Live(i)'
<1>1. IsFiniteSet(L) /\ Cardinality(L) \in Nat /\ M \in SUBSET L
  BY LiveIsFinite
<1> HIDE DEF L, M
<1>2. IsFiniteSet(M) /\ Cardinality(M) <= Cardinality(L)
  BY <1>1, FS_Subset
<1>3. Cardinality(M) \in Nat
  BY <1>2, FS_CardinalityType
<1>4. applied[i] \in Nat /\ retried[i] \in Nat /\ applied[i] + Cardinality(L) <= 1 + retried[i]
  BY DEF Types, L
<1>5. applied[i] + Cardinality(M) <= 1 + retried[i]
  BY <1>1, <1>2, <1>3, <1>4
<1>6. QED
  BY <1>5 DEF M

\* Turns, changes and operations that only go.
LEMMA LessIInv ==
  ASSUME AIAssumption, IInv, session' \subseteq session, op' \subseteq op,
         role' \in [Users -> RoleNames], ready' \in BOOLEAN, events' \in Nat,
         chats' \in Nat, chats <= chats', chats' <= MaxChats,
         turn' \in [Turns -> TurnType \cup {NoTurn}],
         \A t \in Turns : turn'[t] \in {turn[t], NoTurn},
         UNCHANGED <<ids, approved, retried, applied>>
  PROVE  IInv'
<1>1. Types /\ CallsAreCounted /\ SessionsAreNew /\ OperationsAreApproved /\ AppliedWasApproved /\ Places
  BY DEF IInv
<1>2. Running' \in SUBSET Running /\ \A t \in Running' : turn'[t] = turn[t]
  BY DEF Running
<1>3. IsFiniteSet(Running') /\ Cardinality(Running') <= Cardinality(Running)
  BY <1>1, <1>2, FS_Subset DEF Types
<1>4. /\ Cardinality(Running') \in Nat /\ Cardinality(Running) \in Nat
      /\ MaxPending \in Nat /\ MaxPerUser \in Nat
  BY <1>1, <1>3, FS_CardinalityType DEF Types, AIAssumption
<1>5. /\ IsFiniteSet(session') /\ Cardinality(session') <= MaxPending
      /\ \A u \in Users : Cardinality({x \in session' : x.user = u}) <= MaxPerUser
  BY <1>1, <1>4, FewerPlaces DEF Types, Places
<1>6. Types'
  <2>1. ids' + Cardinality(Running') <= chats'
    BY <1>1, <1>3, <1>4 DEF Types
  <2>2. IsFiniteSet(op')
    BY <1>1, FS_Subset DEF Types
  <2>3. QED
    BY <1>1, <1>3, <1>5, <2>1, <2>2 DEF Types
<1>7. CallsAreCounted'
  <2>1. ASSUME NEW x \in Running' PROVE Counted(turn'[x])
    BY <1>1, <1>2 DEF CallsAreCounted
  <2>2. QED
    BY <2>1 DEF CallsAreCounted, Counted
<1>8. OperationsAreApproved'
  <2>1. \A i \in Ids : Live(i)' \in SUBSET Live(i)
    BY DEF Live
  <2>2. QED
    BY <1>1, <2>1, SameBudget DEF OperationsAreApproved
<1>9. SessionsAreNew' /\ AppliedWasApproved' /\ Places'
  BY <1>1, <1>5 DEF SessionsAreNew, AppliedWasApproved, Places
<1>10. QED
  BY <1>6, <1>7, <1>8, <1>9 DEF IInv

LEMMA ExpiresIInv ==
  ASSUME AIAssumption, IInv, NEW s \in session, SessionExpires(s)
  PROVE  IInv'
<1> DEFINE e == [s EXCEPT !.expired = TRUE]
<1>1. /\ session' = (session \ {s}) \cup {e}
      /\ UNCHANGED <<role, ready, turn, op, ids, chats, events, approved, retried, applied>>
  BY DEF SessionExpires, people, past
<1>2. Types /\ CallsAreCounted /\ SessionsAreNew /\ OperationsAreApproved /\ AppliedWasApproved /\ Places
  BY DEF IInv
<1>3. /\ e \in SessionType /\ e.id = s.id /\ e.user = s.user /\ e.unanswered = s.unanswered
  BY SessionFacts DEF SessionType
<1> HIDE DEF e
<1>4. /\ IsFiniteSet(session') /\ Cardinality(session') <= MaxPending
      /\ \A u \in Users : Cardinality({x \in session' : x.user = u}) <= MaxPerUser
  <2>1. ASSUME NEW S, IsFiniteSet(S), s \in S, NEW n \in Nat, Cardinality(S) <= n
        PROVE  IsFiniteSet((S \ {s}) \cup {e}) /\ Cardinality((S \ {s}) \cup {e}) <= n
    <3>1. IsFiniteSet(S \ {s}) /\ Cardinality(S \ {s}) = Cardinality(S) - 1 /\ Cardinality(S) \in Nat
      BY <2>1, FS_RemoveElement, FS_CardinalityType
    <3>2. /\ IsFiniteSet((S \ {s}) \cup {e}) /\ Cardinality(S \ {s}) \in Nat
          /\ Cardinality((S \ {s}) \cup {e}) \in Nat
          /\ Cardinality((S \ {s}) \cup {e}) <= Cardinality(S \ {s}) + 1
      BY <3>1, OneMore
    <3>3. QED
      BY <2>1, <3>1, <3>2
  <2>2. IsFiniteSet(session') /\ Cardinality(session') <= MaxPending
    BY <1>1, <1>2, <2>1 DEF Types, Places, AIAssumption
  <2>3. ASSUME NEW u \in Users
        PROVE  Cardinality({x \in session' : x.user = u}) <= MaxPerUser
    <3> DEFINE A == {x \in session : x.user = u}
               B == {x \in session' : x.user = u}
    <3>1. IsFiniteSet(A) /\ Cardinality(A) <= MaxPerUser /\ MaxPerUser \in Nat
      <4>1. A \in SUBSET session
        OBVIOUS
      <4>2. QED
        BY <1>2, <4>1, FS_Subset DEF Types, Places, AIAssumption
    <3>2. CASE s.user = u
      <4>1. B = (A \ {s}) \cup {e} /\ s \in A
        BY <1>1, <1>3, <3>2
      <4> HIDE DEF A
      <4>2. QED
        BY <2>1, <3>1, <4>1
    <3>3. CASE s.user # u
      <4>1. B = A
        BY <1>1, <1>3, <3>3
      <4>2. QED
        BY <3>1, <4>1
    <3>4. QED
      BY <3>2, <3>3
  <2>4. QED
    BY <2>2, <2>3
<1>5. Types' /\ CallsAreCounted'
  BY <1>1, <1>2, <1>3, <1>4 DEF Types, CallsAreCounted, Running, Counted
<1>6. SessionsAreNew'
  BY <1>1, <1>2, <1>3 DEF SessionsAreNew
<1>7. OperationsAreApproved' /\ AppliedWasApproved' /\ Places'
  BY <1>1, <1>2, <1>4 DEF OperationsAreApproved, Live, AppliedWasApproved, Places
<1>8. QED
  BY <1>5, <1>6, <1>7 DEF IInv

\* What an approval remembers.
LEMMA ApprovalFacts ==
  ASSUME AIAssumption, IInv, NEW s \in session, NEW u \in Users, Takes(s, u), TakeOwned(s, u), Remember(s, u)
  PROVE  /\ session' = session \ {s} /\ approved' \subseteq ApprovalType /\ IsFiniteSet(approved')
         /\ approved \subseteq approved'
         /\ \E a \in approved' : a.session = s.id
         /\ \A a \in approved' \ approved : a.session = s.id /\ a.by = a.owner
<1> DEFINE a == [session |-> s.id, owner |-> s.user, by |-> u, change |-> s.change]
<1>1. session' = session \ {s} /\ approved' = approved \cup {a} /\ s.user = u
  BY DEF TakeOwned, Takes, Without, Remember
<1>2. a \in ApprovalType /\ a.session = s.id /\ a.by = a.owner
  BY <1>1, SessionFacts DEF ApprovalType, SessionType
<1> HIDE DEF a
<1>3. approved \subseteq ApprovalType /\ IsFiniteSet(approved)
  BY DEF IInv, Types
<1>4. IsFiniteSet(approved')
  BY <1>1, <1>3, FS_AddElement
<1>5. QED
  BY <1>1, <1>2, <1>3, <1>4

LEMMA ApproveIInv ==
  ASSUME AIAssumption, IInv, NEW s \in session, NEW u \in Users, Approve(s, u)
  PROVE  IInv'
<1>1. TakeOwned(s, u) /\ UNCHANGED <<role, ready, turn, ids, chats, retried, applied>>
  BY DEF Approve, people
<1>2. Types /\ CallsAreCounted /\ SessionsAreNew /\ OperationsAreApproved /\ AppliedWasApproved /\ Places
  BY DEF IInv
<1>3. CASE UNCHANGED <<op, approved>> /\ (Happens \/ UNCHANGED events)
  <2>1. session' \subseteq session /\ events' \in Nat
    BY <1>1, <1>2, <1>3 DEF TakeOwned, Without, Happens, Types
  <2>2. /\ role' \in [Users -> RoleNames] /\ ready' \in BOOLEAN /\ chats' \in Nat /\ chats <= chats'
        /\ chats' <= MaxChats /\ turn' \in [Turns -> TurnType \cup {NoTurn}]
        /\ \A t \in Turns : turn'[t] \in {turn[t], NoTurn}
    BY <1>1, <1>2 DEF Types
  <2>3. QED
    BY <1>1, <1>3, <2>1, <2>2, LessIInv
<1>4. CASE /\ Takes(s, u) /\ Remember(s, u) /\ UNCHANGED events
           /\ op' = op \cup {[session |-> s.id, user |-> u, change |-> s.change, attempt |-> 0,
                                pc |-> "queued"]}
  <2> DEFINE o == [session |-> s.id, user |-> u, change |-> s.change, attempt |-> 0, pc |-> "queued"]
  <2>1. /\ session' = session \ {s} /\ approved' \subseteq ApprovalType /\ IsFiniteSet(approved')
        /\ approved \subseteq approved'
        /\ \E a \in approved' : a.session = s.id
        /\ \A a \in approved' \ approved : a.session = s.id /\ a.by = a.owner
    BY <1>1, <1>4, ApprovalFacts
  <2>2. o \in OpType /\ o.session = s.id
    BY SessionFacts DEF OpType, SessionType
  <2>a. IsFiniteSet(op \cup {o})
    BY <1>2, FS_AddElement DEF Types
  <2>3. op' = op \cup {o} /\ events' = events
    BY <1>4
  <2> HIDE DEF o
  <2>4. /\ applied[s.id] = 0 /\ s.id <= ids
        /\ \A x \in session : x.id = s.id => x = s
        /\ \A x \in op : x.session # s.id
    BY <1>2, SessionFacts DEF SessionsAreNew
  <2>5. /\ IsFiniteSet(session') /\ Cardinality(session') <= MaxPending
        /\ \A v \in Users : Cardinality({x \in session' : x.user = v}) <= MaxPerUser
    BY <1>2, <2>1, FewerPlaces DEF Types, Places, AIAssumption
  <2>6. Types' /\ CallsAreCounted'
    BY <1>1, <1>2, <2>1, <2>2, <2>3, <2>5, <2>a DEF Types, CallsAreCounted, Running, Counted
  <2>7. SessionsAreNew'
    BY <1>1, <1>2, <2>1, <2>2, <2>3, <2>4 DEF SessionsAreNew
  <2>8. OperationsAreApproved'
    <3>1. \A x \in op' : x.session <= ids' /\ \E a \in approved' : a.session = x.session
      BY <1>1, <1>2, <2>1, <2>2, <2>3, <2>4 DEF OperationsAreApproved
    <3>2. ASSUME NEW i \in Ids PROVE applied[i] + Cardinality(Live(i)') <= 1 + retried[i]
      <4>1. CASE i = s.id
        <5>1. Live(i)' \subseteq {o}
          BY <2>2, <2>3, <2>4, <4>1 DEF Live
        <5>2. Cardinality({o}) = 1 /\ IsFiniteSet({o})
          BY FS_Singleton
        <5>3. Cardinality(Live(i)') <= 1
          BY <5>1, <5>2, FS_Subset
        <5>4. Cardinality(Live(i)') \in Nat
          BY <5>1, <5>2, FS_Subset, FS_CardinalityType
        <5>5. applied[i] = 0 /\ retried[i] \in Nat
          BY <1>2, <2>4, <4>1 DEF Types
        <5>6. QED
          BY <5>3, <5>4, <5>5
      <4>2. CASE i # s.id
        <5>1. Live(i)' = Live(i)
          BY <2>2, <2>3, <4>2 DEF Live
        <5>2. QED
          BY <1>2, <5>1 DEF OperationsAreApproved
      <4>3. QED
        BY <4>1, <4>2
    <3>3. QED
      BY <1>1, <3>1, <3>2 DEF OperationsAreApproved
  <2>9. AppliedWasApproved' /\ Places'
    BY <1>1, <1>2, <2>1, <2>5 DEF AppliedWasApproved, Places
  <2>10. QED
    BY <2>6, <2>7, <2>8, <2>9 DEF IInv
<1>5. QED
  BY <1>3, <1>4 DEF Approve

LEMMA ContinueIInv ==
  ASSUME AIAssumption, IInv, NEW s \in session, NEW u \in Users, NEW t \in Turns, Continue(s, u, t)
  PROVE  IInv'
<1>1. /\ TakeOwned(s, u) /\ turn[t] = NoTurn /\ chats < MaxChats /\ chats' = chats + 1
      /\ UNCHANGED <<role, ready, op, ids, events, retried>>
  BY DEF Continue, people
<1>2. Types /\ CallsAreCounted /\ SessionsAreNew /\ OperationsAreApproved /\ AppliedWasApproved /\ Places
  BY DEF IInv
<1>3. chats' \in Nat /\ chats <= chats' /\ chats' <= MaxChats
  BY <1>1, <1>2 DEF Types, AIAssumption
<1>4. CASE UNCHANGED <<turn, approved, applied>>
  <2>1. session' \subseteq session
    BY <1>1 DEF TakeOwned, Without
  <2>2. /\ role' \in [Users -> RoleNames] /\ ready' \in BOOLEAN /\ events' \in Nat
        /\ turn' \in [Turns -> TurnType \cup {NoTurn}]
        /\ \A x \in Turns : turn'[x] \in {turn[x], NoTurn}
    BY <1>1, <1>2, <1>4 DEF Types
  <2>3. UNCHANGED <<ids, op, approved, retried, applied>>
    BY <1>1, <1>4
  <2>4. QED
    BY <1>3, <2>1, <2>2, <2>3, LessIInv
<1>5. CASE /\ Takes(s, u) /\ Remember(s, u)
           /\ turn' = [turn EXCEPT ![t] = NewTurn(u, s.unanswered - 1)]
           /\ applied' = [applied EXCEPT ![s.id] = @ + 1] \/ UNCHANGED applied
  <2> DEFINE k == NewTurn(u, s.unanswered - 1)
  <2>1. /\ session' = session \ {s} /\ approved' \subseteq ApprovalType /\ IsFiniteSet(approved')
        /\ approved \subseteq approved'
        /\ \E a \in approved' : a.session = s.id
        /\ \A a \in approved' \ approved : a.session = s.id /\ a.by = a.owner
    BY <1>1, <1>5, ApprovalFacts
  <2>2. /\ applied[s.id] = 0 /\ s.id <= ids /\ s.id \in Ids /\ s.unanswered = 1
        /\ \A x \in session : x.id = s.id => x = s
        /\ \A x \in op : x.session # s.id
    BY <1>2, SessionFacts DEF SessionsAreNew
  <2>3. s.unanswered - 1 = 0 /\ role[u] \in RoleNames /\ <<>> \in Seq(Call)
    BY <1>2, <2>2, EmptySeq DEF Types
  <2>4. k \in TurnType /\ Counted(k)
    BY <2>3 DEF NewTurn, TurnType, Counted
  <2>5. turn' = [turn EXCEPT ![t] = k]
    BY <1>5
  <2> HIDE DEF k
  <2>6. t \notin Running /\ k # NoTurn
    BY <1>1, <2>4, NoTurnIsNone DEF Running
  <2>7. /\ turn' \in [Turns -> TurnType \cup {NoTurn}]
        /\ turn'[t] = k /\ \A x \in Turns : x # t => turn'[x] = turn[x]
        /\ Running' = Running \cup {t} /\ IsFiniteSet(Running')
        /\ Cardinality(Running') = Cardinality(Running) + 1
    BY <1>2, <2>4, <2>5, <2>6, RunningTurns
  <2>8. Cardinality(Running) \in Nat
    BY <1>2, FS_CardinalityType DEF Types
  <2>9. /\ IsFiniteSet(session') /\ Cardinality(session') <= MaxPending
        /\ \A v \in Users : Cardinality({x \in session' : x.user = v}) <= MaxPerUser
    BY <1>2, <2>1, FewerPlaces DEF Types, Places, AIAssumption
  <2>10. /\ applied' \in [Ids -> Nat] /\ applied'[s.id] <= 1
         /\ \A i \in Ids : i # s.id => applied'[i] = applied[i]
    <3>1. CASE applied' = [applied EXCEPT ![s.id] = @ + 1]
      BY <1>2, <2>2, <3>1 DEF Types
    <3>2. CASE UNCHANGED applied
      BY <1>2, <2>2, <3>2 DEF Types
    <3>3. QED
      BY <1>5, <3>1, <3>2
  <2>11. Types'
    <3>1. ids' + Cardinality(Running') <= chats'
      BY <1>1, <1>2, <2>7, <2>8 DEF Types
    <3>2. QED
      BY <1>1, <1>2, <1>3, <2>1, <2>7, <2>9, <2>10, <3>1 DEF Types
  <2>12. CallsAreCounted'
    <3>1. ASSUME NEW x \in Running' PROVE Counted(turn'[x])
      BY <1>2, <2>4, <2>7 DEF CallsAreCounted, Running
    <3>2. QED
      BY <3>1 DEF CallsAreCounted, Counted
  <2>13. SessionsAreNew'
    BY <1>1, <1>2, <2>1, <2>2 DEF SessionsAreNew
  <2>14. OperationsAreApproved'
    <3>1. \A x \in op' : x.session <= ids' /\ \E a \in approved' : a.session = x.session
      BY <1>1, <1>2, <2>1 DEF OperationsAreApproved
    <3>2. ASSUME NEW i \in Ids PROVE applied'[i] + Cardinality(Live(i)) <= 1 + retried[i]
      <4>1. CASE i = s.id
        <5>1. Live(i) = {}
          BY <2>2, <4>1 DEF Live
        <5>2. Cardinality(Live(i)) = 0 /\ applied'[i] <= 1 /\ applied'[i] \in Nat /\ retried[i] \in Nat
          BY <1>2, <2>10, <4>1, <5>1, FS_EmptySet DEF Types
        <5>3. QED
          BY <5>2
      <4>2. CASE i # s.id
        BY <1>2, <2>10, <4>2 DEF OperationsAreApproved
      <4>3. QED
        BY <4>1, <4>2
    <3>3. UNCHANGED <<op, retried>>
      BY <1>1
    <3>4. QED
      BY <3>1, <3>2, <3>3 DEF OperationsAreApproved, Live
  <2>15. AppliedWasApproved' /\ Places'
    BY <1>2, <2>1, <2>9, <2>10 DEF AppliedWasApproved, Places
  <2>16. QED
    BY <2>11, <2>12, <2>13, <2>14, <2>15 DEF IInv
<1>6. QED
  BY <1>4, <1>5 DEF Continue

-----------------------------------------------------------------------------
(* Execution, and what happens to the process.                             *)

LEMMA OperationFacts ==
  ASSUME AIAssumption, IInv, NEW o \in op
  PROVE  /\ o \in OpType /\ o.session \in Ids /\ o.session <= ids
         /\ \E a \in approved : a.session = o.session
<1>1. /\ o \in OpType /\ o.session \in Nat \ {0} /\ o.session <= ids
      /\ \E a \in approved : a.session = o.session
  BY DEF IInv, Types, OpType, OperationsAreApproved
<1>2. Cardinality(Running) \in Nat
  BY FS_CardinalityType DEF IInv, Types
<1>3. ids <= MaxChats /\ ids \in Nat /\ MaxChats \in Nat
  BY <1>2 DEF IInv, Types, AIAssumption
<1>4. QED
  BY <1>1, <1>3 DEF Ids

\* A step about the operations of one session that pays for what it adds.
LEMMA OperationIInv ==
  ASSUME AIAssumption, IInv, NEW o \in op,
         UNCHANGED <<role, ready, turn, session, ids, chats, events, approved>>,
         op' \subseteq OpType, IsFiniteSet(op'),
         \A x \in op' : x \in op \/ x.session = o.session,
         applied' \in [Ids -> Nat], retried' \in [Ids -> Nat],
         \A i \in Ids : i # o.session =>
            applied'[i] = applied[i] /\ retried'[i] = retried[i] /\ Live(i)' = Live(i),
         applied'[o.session] + Cardinality(Live(o.session)') <= 1 + retried'[o.session]
  PROVE  IInv'
<1>1. Types /\ CallsAreCounted /\ SessionsAreNew /\ OperationsAreApproved /\ AppliedWasApproved /\ Places
  BY DEF IInv
<1>2. o.session \in Ids /\ o.session <= ids /\ \E a \in approved : a.session = o.session
  BY OperationFacts
<1>3. Types' /\ CallsAreCounted'
  BY <1>1 DEF Types, CallsAreCounted, Running, Counted
<1>4. SessionsAreNew'
  BY <1>1, <1>2 DEF SessionsAreNew
<1>5. OperationsAreApproved'
  <2>1. \A x \in op' : x.session <= ids' /\ \E a \in approved' : a.session = x.session
    BY <1>1, <1>2 DEF OperationsAreApproved
  <2>2. \A i \in Ids : applied'[i] + Cardinality(Live(i)') <= 1 + retried'[i]
    BY <1>1 DEF OperationsAreApproved
  <2>3. QED
    BY <2>1, <2>2 DEF OperationsAreApproved
<1>6. AppliedWasApproved' /\ Places'
  BY <1>1, <1>2 DEF AppliedWasApproved, Places
<1>7. QED
  BY <1>3, <1>4, <1>5, <1>6 DEF IInv

\* What an operation's session has paid for, and how its live operations count
\* without it and with another.
LEMMA LiveFacts ==
  ASSUME AIAssumption, IInv, NEW o \in op
  PROVE  LET L == Live(o.session) IN
         /\ applied[o.session] \in Nat /\ retried[o.session] \in Nat /\ Cardinality(L) \in Nat
         /\ applied[o.session] + Cardinality(L) <= 1 + retried[o.session]
         /\ IsFiniteSet(L) /\ IsFiniteSet(op) /\ op \subseteq OpType
         /\ o.pc # "failed" => /\ Cardinality(L \ {o}) = Cardinality(L) - 1
                               /\ Cardinality(L \ {o}) \in Nat /\ IsFiniteSet(L \ {o})
<1> DEFINE L == Live(o.session)
<1>1. o.session \in Ids /\ Types /\ OperationsAreApproved
  BY OperationFacts DEF IInv
<1>2. IsFiniteSet(L) /\ Cardinality(L) \in Nat
  BY <1>1, LiveIsFinite
<1>3. o.pc # "failed" => o \in L
  BY DEF Live
<1>4. applied[o.session] + Cardinality(L) <= 1 + retried[o.session]
  BY <1>1 DEF OperationsAreApproved
<1> HIDE DEF L
<1>5. o.pc # "failed" => /\ Cardinality(L \ {o}) = Cardinality(L) - 1
                         /\ IsFiniteSet(L \ {o}) /\ Cardinality(L \ {o}) \in Nat
  BY <1>2, <1>3, FS_RemoveElement, FS_CardinalityType
<1>6. QED
  BY <1>1, <1>2, <1>4, <1>5 DEF Types, L

LEMMA BeginIInv ==
  ASSUME AIAssumption, IInv, NEW o, Begin(o)
  PROVE  IInv'
<1> DEFINE L == Live(o.session)
<1>1. /\ o \in op /\ o.pc = "queued"
      /\ UNCHANGED <<role, ready, turn, session, ids, chats, events, approved, retried, applied>>
  BY DEF Begin, people, past
<1>2. Types /\ o \in OpType /\ o.session \in Ids
  BY <1>1, OperationFacts DEF IInv
<1>3. /\ applied[o.session] \in Nat /\ retried[o.session] \in Nat /\ Cardinality(L) \in Nat
      /\ applied[o.session] + Cardinality(L) <= 1 + retried[o.session]
      /\ IsFiniteSet(L) /\ IsFiniteSet(op) /\ op \subseteq OpType
      /\ Cardinality(L \ {o}) = Cardinality(L) - 1 /\ Cardinality(L \ {o}) \in Nat /\ IsFiniteSet(L \ {o})
  BY <1>1, LiveFacts
<1>4. ASSUME NEW pc \in {"running", "failed"}, op' = Becomes(o, pc)
      PROVE  IInv'
  <2> DEFINE e == [o EXCEPT !.pc = pc]
  <2>1. e \in OpType /\ e.session = o.session /\ op' = (op \ {o}) \cup {e}
    BY <1>2, <1>4 DEF OpType, Becomes
  <2> HIDE DEF e
  <2>2. op' \subseteq OpType /\ IsFiniteSet(op') /\ \A x \in op' : x \in op \/ x.session = o.session
    BY <1>3, <2>1, FS_RemoveElement, FS_AddElement
  <2>3. \A i \in Ids : i # o.session => Live(i)' = Live(i)
    BY <1>1, <2>1 DEF Live
  <2>4. Live(o.session)' \in SUBSET ((L \ {o}) \cup {e})
    BY <1>1, <2>1 DEF Live
  <2>5. applied[o.session] + Cardinality(Live(o.session)') <= 1 + retried[o.session]
    <3> HIDE DEF L
    <3>1. /\ IsFiniteSet((L \ {o}) \cup {e}) /\ Cardinality((L \ {o}) \cup {e}) \in Nat
          /\ Cardinality((L \ {o}) \cup {e}) <= Cardinality(L \ {o}) + 1
      BY <1>3, OneMore
    <3>2. Cardinality(Live(o.session)') <= Cardinality((L \ {o}) \cup {e})
      BY <2>4, <3>1, FS_Subset
    <3>3. Cardinality(Live(o.session)') \in Nat
      BY <2>4, <3>1, FS_Subset, FS_CardinalityType
    <3>4. QED
      BY <1>3, <3>1, <3>2, <3>3
  <2>6. applied' \in [Ids -> Nat] /\ retried' \in [Ids -> Nat] /\ applied' = applied /\ retried' = retried
    BY <1>1, <1>2 DEF Types
  <2>7. UNCHANGED <<role, ready, turn, session, ids, chats, events, approved>>
    BY <1>1
  <2>8. QED
    BY <1>1, <2>2, <2>3, <2>5, <2>6, <2>7, OperationIInv
<1>5. CASE op' = op \ {o}
  <2>1. /\ role' \in [Users -> RoleNames] /\ ready' \in BOOLEAN /\ events' \in Nat
        /\ chats' \in Nat /\ chats <= chats' /\ chats' <= MaxChats
        /\ turn' \in [Turns -> TurnType \cup {NoTurn}]
        /\ \A x \in Turns : turn'[x] \in {turn[x], NoTurn}
    BY <1>1, <1>2 DEF Types
  <2>2. session' \subseteq session /\ op' \subseteq op /\ UNCHANGED <<ids, approved, retried, applied>>
    BY <1>1, <1>5
  <2>3. QED
    BY <2>1, <2>2, LessIInv
<1>6. QED
  BY <1>4, <1>5 DEF Begin

LEMMA RetryIInv ==
  ASSUME AIAssumption, IInv, NEW o, Retry(o)
  PROVE  IInv'
<1> DEFINE L == Live(o.session)
           e == [o EXCEPT !.attempt = retried[o.session] + 1, !.pc = "queued"]
<1>1. /\ o \in op /\ op' = op \cup {e} /\ retried' = [retried EXCEPT ![o.session] = @ + 1]
      /\ UNCHANGED <<role, ready, turn, session, ids, chats, events, approved, applied>>
  BY DEF Retry, people
<1>2. Types /\ o \in OpType /\ o.session \in Ids
  BY <1>1, OperationFacts DEF IInv
<1>3. /\ applied[o.session] \in Nat /\ retried[o.session] \in Nat /\ Cardinality(L) \in Nat
      /\ applied[o.session] + Cardinality(L) <= 1 + retried[o.session]
      /\ IsFiniteSet(L) /\ IsFiniteSet(op) /\ op \subseteq OpType
  BY <1>1, LiveFacts
<1>4. e \in OpType /\ e.session = o.session
  <2> DEFINE n == retried[o.session] + 1
  <2>1. n \in Nat
    BY <1>3
  <2> HIDE DEF n
  <2>2. [o EXCEPT !.attempt = n, !.pc = "queued"] \in OpType
    BY <1>2, <2>1 DEF OpType
  <2>3. [o EXCEPT !.attempt = n, !.pc = "queued"].session = o.session
    BY <1>2 DEF OpType
  <2>4. QED
    BY <2>2, <2>3 DEF n
<1> HIDE DEF e
<1>5. op' \subseteq OpType /\ IsFiniteSet(op') /\ \A x \in op' : x \in op \/ x.session = o.session
  BY <1>1, <1>3, <1>4, FS_AddElement
<1>6. \A i \in Ids : i # o.session => Live(i)' = Live(i)
  BY <1>1, <1>4 DEF Live
<1>7. Live(o.session)' \in SUBSET (L \cup {e})
  BY <1>1 DEF Live
<1>8. /\ retried' \in [Ids -> Nat] /\ retried'[o.session] = retried[o.session] + 1
      /\ \A i \in Ids : i # o.session => retried'[i] = retried[i]
  BY <1>1, <1>2 DEF Types
<1>9. applied[o.session] + Cardinality(Live(o.session)') <= 1 + retried'[o.session]
  <2> HIDE DEF L
  <2>1. /\ IsFiniteSet(L \cup {e}) /\ Cardinality(L \cup {e}) \in Nat
        /\ Cardinality(L \cup {e}) <= Cardinality(L) + 1
    BY <1>3, OneMore
  <2>2. Cardinality(Live(o.session)') <= Cardinality(L \cup {e})
    BY <1>7, <2>1, FS_Subset
  <2>3. Cardinality(Live(o.session)') \in Nat
    BY <1>7, <2>1, FS_Subset, FS_CardinalityType
  <2>4. QED
    BY <1>3, <1>8, <2>1, <2>2, <2>3
<1>10. applied' \in [Ids -> Nat] /\ applied' = applied
  BY <1>1, <1>2 DEF Types
<1>11. UNCHANGED <<role, ready, turn, session, ids, chats, events, approved>>
  BY <1>1
<1>12. QED
  BY <1>1, <1>5, <1>6, <1>8, <1>9, <1>10, <1>11, OperationIInv

LEMMA ApplyIInv ==
  ASSUME AIAssumption, IInv, NEW o, NEW ok, Apply(o, ok)
  PROVE  IInv'
<1> DEFINE L == Live(o.session)
<1>1. /\ o \in op /\ o.pc = "running" /\ op' = op \ {o}
      /\ applied' = [applied EXCEPT ![o.session] = @ + 1] \/ UNCHANGED applied
      /\ UNCHANGED <<role, ready, turn, session, ids, chats, events, approved, retried>>
  BY DEF Apply, people
<1>2. Types /\ o \in OpType /\ o.session \in Ids
  BY <1>1, OperationFacts DEF IInv
<1>3. /\ applied[o.session] \in Nat /\ retried[o.session] \in Nat /\ Cardinality(L) \in Nat
      /\ applied[o.session] + Cardinality(L) <= 1 + retried[o.session]
      /\ IsFiniteSet(op) /\ op \subseteq OpType
      /\ Cardinality(L \ {o}) = Cardinality(L) - 1 /\ Cardinality(L \ {o}) \in Nat
  BY <1>1, LiveFacts
<1>4. op' \subseteq OpType /\ IsFiniteSet(op') /\ \A x \in op' : x \in op \/ x.session = o.session
  BY <1>1, <1>3, FS_RemoveElement
<1>5. /\ applied' \in [Ids -> Nat] /\ applied'[o.session] <= applied[o.session] + 1
      /\ \A i \in Ids : i # o.session => applied'[i] = applied[i]
  <2>1. CASE applied' = [applied EXCEPT ![o.session] = @ + 1]
    BY <1>2, <1>3, <2>1 DEF Types
  <2>2. CASE UNCHANGED applied
    BY <1>2, <1>3, <2>2 DEF Types
  <2>3. QED
    BY <1>1, <2>1, <2>2
<1>6. \A i \in Ids : i # o.session => Live(i)' = Live(i)
  BY <1>1 DEF Live
<1>7. Live(o.session)' = L \ {o}
  BY <1>1 DEF Live
<1>8. applied'[o.session] + Cardinality(Live(o.session)') <= 1 + retried[o.session]
  <2>1. applied'[o.session] \in Nat
    BY <1>2, <1>5
  <2> HIDE DEF L
  <2>2. QED
    BY <1>3, <1>5, <1>7, <2>1
<1>9. retried' \in [Ids -> Nat] /\ retried' = retried
  BY <1>1, <1>2 DEF Types
<1>10. UNCHANGED <<role, ready, turn, session, ids, chats, events, approved>>
  BY <1>1
<1>11. QED
  BY <1>1, <1>4, <1>5, <1>6, <1>8, <1>9, <1>10, OperationIInv

LEMMA EventIInv ==
  ASSUME AIAssumption, IInv, Configure \/ Crash \/ \E u \in Users, r \in Roles : UpdateRole(u, r)
  PROVE  IInv'
<1>1. Types
  BY DEF IInv
<1>2. /\ session' \subseteq session /\ op' \subseteq op /\ UNCHANGED <<ids, chats, approved, retried, applied>>
      /\ events' \in Nat
  BY <1>1 DEF Configure, Crash, UpdateRole, Happens, people, past, Types
<1>3. role' \in [Users -> RoleNames] /\ ready' \in BOOLEAN
  BY <1>1 DEF Configure, Crash, UpdateRole, people, Types, RoleNames, Roles
<1>4. /\ turn' \in [Turns -> TurnType \cup {NoTurn}]
      /\ \A t \in Turns : turn'[t] \in {turn[t], NoTurn}
  BY <1>1 DEF Configure, Crash, UpdateRole, Types
<1>5. chats' \in Nat /\ chats <= chats' /\ chats' <= MaxChats
  BY <1>1, <1>2 DEF Types
<1>6. QED
  BY <1>2, <1>3, <1>4, <1>5, LessIInv

LEMMA InitIInv == AIAssumption /\ Init => IInv
<1> SUFFICES ASSUME AIAssumption, Init PROVE IInv
  OBVIOUS
<1>1. Running = {} /\ IsFiniteSet(Running) /\ Cardinality(Running) = 0
  BY FS_EmptySet DEF Init, Running
<1>2. Types
  BY <1>1, FS_EmptySet DEF Types, Init, RoleNames, AIAssumption
<1>3. CallsAreCounted /\ SessionsAreNew /\ OperationsAreApproved /\ AppliedWasApproved
  <2>1. \A i \in Ids : Live(i) = {} /\ Cardinality(Live(i)) = 0 /\ applied[i] = 0 /\ retried[i] = 0
    BY FS_EmptySet DEF Init, Live
  <2>2. OperationsAreApproved
    BY <2>1 DEF Init, OperationsAreApproved
  <2>3. QED
    BY <1>1, <2>1, <2>2 DEF Init, CallsAreCounted, SessionsAreNew, AppliedWasApproved
<1>4. Places
  <2>1. session = {} /\ \A u \in Users : {s \in session : s.user = u} = {}
    BY DEF Init
  <2>2. QED
    BY <2>1, FS_EmptySet DEF Places, AIAssumption
<1>5. QED
  BY <1>2, <1>3, <1>4 DEF IInv

LEMMA StepIInv == AIAssumption /\ IInv /\ [Next]_vars => IInv'
<1> SUFFICES ASSUME AIAssumption, IInv, [Next]_vars PROVE IInv'
  OBVIOUS
<1>1. CASE \E t \in Turns : RunTurn(t)
  BY <1>1, StreamedIInv, CallToolIInv, CallsDoneIInv, SaveIInv DEF RunTurn
<1>2. CASE \E t \in Turns, u \in Users : Chat(t, u)
  BY <1>2, ChatIInv
<1>3. CASE \E t \in Turns, u \in Users : \E s \in session : Continue(s, u, t)
  BY <1>3, ContinueIInv
<1>4. CASE \E s \in session : SessionExpires(s) \/ \E u \in Users : Approve(s, u)
  BY <1>4, ExpiresIInv, ApproveIInv
<1>5. CASE \E o \in op : Begin(o) \/ Retry(o) \/ \E ok \in BOOLEAN : Apply(o, ok)
  BY <1>5, BeginIInv, RetryIInv, ApplyIInv
<1>6. CASE Configure \/ Crash \/ \E u \in Users, r \in Roles : UpdateRole(u, r)
  BY <1>6, EventIInv
<1>7. CASE UNCHANGED vars
  BY <1>7 DEF vars, IInv, Types, Running, CallsAreCounted, Counted, SessionsAreNew,
              OperationsAreApproved, Live, AppliedWasApproved, Places
<1>8. QED
  BY <1>1, <1>2, <1>3, <1>4, <1>5, <1>6, <1>7 DEF Next

\* The invariant of the assistant's turns and of the changes that wait.
THEOREM Invariance == Spec => []IInv
BY InitIInv, StepIInv, AIAssumption, PTL DEF Spec

\* Types, and no more changes wait than the limits allow (session.go save).
THEOREM TypeCorrect == Spec => []TypeOK
<1>1. ASSUME IInv PROVE TypeOK
  <2>1. Types /\ Places
    BY <1>1 DEF IInv
  <2>2. \A s \in session : s.id \in Ids /\ s.user \in Users /\ s.change \in Changes
    BY <1>1, AIAssumption, SessionFacts
  <2>3. \A o \in op : o.session \in Ids /\ o.pc \in {"queued", "running", "failed"}
    BY <1>1, AIAssumption, OperationFacts DEF OpType
  <2>4. QED
    BY <2>1, <2>2, <2>3 DEF TypeOK, Types, Places, RoleNames, Roles
<1>2. QED
  BY <1>1, Invariance, PTL

\* What was applied or is still to be was approved by the owner of its
\* session, or asked for again by a retry.
LEMMA AppliedIsApproved == AIAssumption /\ IInv => AppliedAsApproved
<1>1. ASSUME AIAssumption, IInv PROVE AppliedAsApproved
  <2>1. \A a \in approved : a.by = a.owner
    BY <1>1 DEF IInv, SessionsAreNew
  <2>2. ASSUME NEW i \in Ids
        PROVE  applied[i] + Cardinality(Live(i)) <= Cardinality({a \in approved : a.session = i}) + retried[i]
    <3> DEFINE A == {a \in approved : a.session = i}
               L == Live(i)
    <3>1. /\ applied[i] \in Nat /\ retried[i] \in Nat /\ IsFiniteSet(approved)
          /\ IsFiniteSet(L) /\ Cardinality(L) \in Nat /\ applied[i] + Cardinality(L) <= 1 + retried[i]
      BY <1>1, LiveIsFinite DEF IInv, Types, OperationsAreApproved
    <3>2. A \in SUBSET approved
      OBVIOUS
    <3>3. IsFiniteSet(A) /\ Cardinality(A) \in Nat
      BY <3>1, <3>2, FS_Subset, FS_CardinalityType
    <3>4. applied[i] # 0 \/ L # {} => A # {}
      BY <1>1 DEF IInv, AppliedWasApproved, OperationsAreApproved, Live
    <3> HIDE DEF A, L
    <3>5. CASE A = {}
      <4>1. applied[i] = 0 /\ Cardinality(L) = 0
        BY <3>4, <3>5, FS_EmptySet
      <4>2. QED
        BY <3>1, <3>3, <4>1 DEF A, L
    <3>6. CASE A # {}
      <4>1. Cardinality(A) # 0
        BY <3>3, <3>6, FS_EmptySet
      <4>2. applied[i] + Cardinality(L) <= Cardinality(A) + retried[i]
        BY <3>1, <3>3, <4>1
      <4>3. QED
        BY <4>2 DEF A, L
    <3>7. QED
      BY <3>5, <3>6
  <2>3. QED
    BY <2>1, <2>2 DEF AppliedAsApproved, Live
<1>2. QED
  BY <1>1

\* A change is approved by its own user, and reaches the cluster at most once
\* for the approval and once more for every retry, however often a failed
\* operation is retried (session.go takeOwned; manager.go Retry).
THEOREM AppliedOnceAsApproved == Spec => []AppliedAsApproved
BY AppliedIsApproved, Invariance, AIAssumption, PTL

\* A conversation that is sent has no call without its answer.
LEMMA CallsAreAnswered == IInv => EveryCallIsAnswered
<1>1. ASSUME IInv PROVE EveryCallIsAnswered
  <2>1. ASSUME NEW t \in Turns, turn[t].pc = "stream" PROVE turn[t].unanswered = 0
    BY <1>1, <2>1, TurnFacts DEF Counted
  <2>2. QED
    BY <2>1 DEF EveryCallIsAnswered
<1>2. QED
  BY <1>1

\* The model is sent no conversation with an unanswered call (agent.go).
THEOREM EveryCallAnswered == Spec => []EveryCallIsAnswered
BY CallsAreAnswered, Invariance, PTL

-----------------------------------------------------------------------------
(* Places.                                                                 *)

\* A change is refused a place only if as many unexpired ones wait
\* (session.go save).
THEOREM RefusedWhenFull == Spec => RefusedOnlyWhenFull
<1> DEFINE Refused(t) ==
      turn[t].pc = "tools" /\ turn[t].calls = <<>> /\ turn[t].pending # "none" /\ turn'[t] = NoTurn /\ ids' = ids
<1>1. ASSUME IInv, [Next]_vars, NEW t \in Turns, Refused(t), events' = events
      PROVE  ~HasRoom({s \in session : ~s.expired}, turn[t].user)
  <2>1. turn[t] \in TurnType /\ turn[t] # NoTurn /\ turn[t].pc = "tools" /\ turn'[t] # turn[t]
    BY <1>1, TurnFacts
  <2>2. turn \in [Turns -> TurnType \cup {NoTurn}]
    BY <1>1 DEF IInv, Types
  <2>3. events \in Nat /\ ~Happens
    BY <1>1 DEF IInv, Types, Happens
  <2>4. PICK x \in Turns : RunTurn(x) \/ \E u \in Users : Chat(x, u) \/ \E s \in session : Continue(s, u, x)
    BY <1>1, <2>1, <2>3 DEF Next, vars, Configure, Crash, UpdateRole, SessionExpires, Approve, Begin, Retry, Apply
  <2>5. \A y \in Turns : y # x => turn'[y] = turn[y]
    <3>1. \E k : turn' = [turn EXCEPT ![x] = k]
      <4>1. CASE RunTurn(x)
        <5>1. CASE Streamed(x)
          BY <5>1 DEF Streamed
        <5>2. CASE CallTool(x)
          <6>1. turn' = [turn EXCEPT ![x].calls = Tail(@),
                          ![x].unanswered = IF Answers(turn[x], Head(turn[x].calls)) THEN @ - 1 ELSE @,
                          ![x].pending = IF KeepsPending(turn[x], Head(turn[x].calls))
                                              THEN Head(turn[x].calls) ELSE @]
            BY <5>2 DEF CallTool
          <6>2. turn' = [turn EXCEPT ![x] = turn'[x]]
            BY <2>2, <6>1
          <6>3. QED
            BY <6>2
        <5>3. CASE CallsDone(x) \/ SaveSession(x)
          BY <5>3 DEF CallsDone, SaveSession
        <5>4. QED
          BY <4>1, <5>1, <5>2, <5>3 DEF RunTurn
      <4>2. CASE \E u \in Users : Chat(x, u) \/ \E s \in session : Continue(s, u, x)
        <5>1. turn' = [turn EXCEPT ![x] = turn'[x]]
          BY <2>2, <4>2 DEF Chat, Continue
        <5>2. QED
          BY <5>1
      <4>3. QED
        BY <2>4, <4>1, <4>2
    <3>2. QED
      BY <2>2, <3>1
  <2>6. x = t
    BY <2>1, <2>5
  <2>7. SaveSession(t)
    <3>1. ~(\E u \in Users : Chat(t, u) \/ \E s \in session : Continue(s, u, t)) /\ ~Streamed(t)
      BY <2>1 DEF Chat, Continue, Streamed
    <3>2. ~CallTool(t) /\ ~CallsDone(t)
      BY <1>1 DEF CallTool, CallsDone
    <3>3. QED
      BY <2>4, <2>6, <3>1, <3>2 DEF RunTurn
  <2>8. ids \in Nat
    BY <1>1 DEF IInv, Types
  <2>9. QED
    BY <1>1, <2>7, <2>8 DEF SaveSession, Evict
<1>2. IInv /\ [Next]_vars =>
        [\A t \in Turns : Refused(t) =>
           ~HasRoom({s \in session : ~s.expired}, turn[t].user) \/ events' # events]_vars
  BY <1>1
<1>3. QED
  BY <1>2, Invariance, PTL DEF Spec, RefusedOnlyWhenFull

-----------------------------------------------------------------------------
(***************************************************************************)
(* The audit log and the shutdown, for any requests, operations and checks *)
(* and any sizes.                                                          *)
(***************************************************************************)

In(s) == {s[i] : i \in DOMAIN s}

\* Where an entry recorded in time is: settled, in the batch, or in the
\* channel, which the loop has emptied by the time of its final flush.
Kept ==
  \A e \in timely :
    \/ e \in stored \cup excused
    \/ loop # "done" /\ e \in In(batch)
    \/ loop \notin {"final", "done"} /\ e \in In(logCh)

\* Operations are over before the audit service is asked to stop.
OperationsAreTimely ==
  mode # "off" => \A e \in Operations : Log!Recorded(e) => e \in timely

\* The stages from a given one on, as Reached has them.
Late == {"auditAsked", "auditStopped", "httpStopped", "exited"}
Stopped == Late \ {"auditAsked"}

\* What the stage of main implies.
StageFacts ==
  /\ main \notin {"serving", "cancelled"} => Log!Running(Operations) = {}
  /\ loop \in {"final", "done"} => main \in Late
  /\ main \in Stopped /\ mode # "off" => loop = "done"
  /\ main = "exited" \/ dbOpen
  /\ mode = "off" <=> loop = "off"
  /\ mode = "off" => timely = {}
  /\ loop = "done" => batch = <<>>
  /\ loop = "select" => Len(batch) < BatchSize

LogInv == Log!TypeOK /\ Kept /\ OperationsAreTimely /\ StageFacts

-----------------------------------------------------------------------------
\* Reached, by the names of the stages.
LEMMA ReachedAuditAsked ==
  ASSUME main \in {Log!Stages[i] : i \in DOMAIN Log!Stages}
  PROVE  Log!Reached("auditAsked") <=> main \in Late
BY DEF Log!Reached, Log!Stages, Late

LEMMA StageNames ==
  {Log!Stages[i] : i \in DOMAIN Log!Stages} =
    {"serving", "cancelled", "operationsStopped", "eventsStopped"} \cup Late
BY DEF Log!Stages, Late

\* What a sequence holds after it grows, shrinks or is joined to another.
LEMMA InAppend ==
  ASSUME NEW S, NEW s \in Seq(S), NEW e \in S
  PROVE  In(Append(s, e)) = In(s) \cup {e}
<1>1. \A i \in 1..Len(s) : Append(s, e)[i] = s[i]
  OBVIOUS
<1>2. Append(s, e)[Len(s) + 1] = e /\ DOMAIN Append(s, e) = 1..(Len(s) + 1) /\ DOMAIN s = 1..Len(s)
  OBVIOUS
<1>3. QED
  BY <1>1, <1>2 DEF In

LEMMA InTail ==
  ASSUME NEW S, NEW s \in Seq(S), s # <<>>
  PROVE  In(s) \subseteq {Head(s)} \cup In(Tail(s))
<1> DEFINE t == Tail(s)
<1>1. DOMAIN s = 1..Len(s) /\ DOMAIN t = 1..(Len(s) - 1) /\ Head(s) = s[1] /\ Len(s) \in Nat \ {0}
  OBVIOUS
<1>2. \A i \in 1..(Len(s) - 1) : t[i] = s[i + 1]
  OBVIOUS
<1> HIDE DEF t
<1>3. ASSUME NEW i \in 1..Len(s), i # 1
      PROVE  s[i] \in In(t)
  <2>1. i - 1 \in 1..(Len(s) - 1) /\ (i - 1) + 1 = i
    BY <1>1, <1>3
  <2>2. t[i - 1] = s[i]
    BY <2>1, <1>2
  <2>3. QED
    BY <2>1, <2>2, <1>1 DEF In
<1>4. \A i \in 1..Len(s) : s[i] \in {Head(s)} \cup In(t)
  BY <1>1, <1>3
<1>5. QED
  BY <1>1, <1>4 DEF In, t

LEMMA InConcat ==
  ASSUME NEW S, NEW s \in Seq(S), NEW t \in Seq(S)
  PROVE  In(s) \cup In(t) \subseteq In(s \o t)
<1>1. /\ DOMAIN s = 1..Len(s) /\ DOMAIN t = 1..Len(t) /\ DOMAIN (s \o t) = 1..(Len(s) + Len(t))
      /\ Len(s) \in Nat /\ Len(t) \in Nat
  OBVIOUS
<1>2. \A i \in 1..Len(s) : (s \o t)[i] = s[i]
  OBVIOUS
<1>3. \A i \in 1..Len(t) : (s \o t)[Len(s) + i] = t[i]
  OBVIOUS
<1>4. In(s) \subseteq In(s \o t)
  BY <1>1, <1>2 DEF In
<1>5. \A i \in 1..Len(t) : Len(s) + i \in DOMAIN (s \o t)
  BY <1>1
<1>6. In(t) \subseteq In(s \o t)
  BY <1>5, <1>1, <1>3 DEF In
<1>7. QED
  BY <1>4, <1>6

-----------------------------------------------------------------------------
\* A job starts: an operation only while main serves.
LEMMA StartLog ==
  ASSUME Log!ServerAssumption, LogInv, NEW e \in Log!Entries, Log!StartJob(e)
  PROVE  LogInv'
<1> USE DEF Log!StartJob, Log!auditVars
<1>1. Log!TypeOK'
  BY DEF LogInv, Log!TypeOK
<1>2. Kept'
  BY DEF LogInv, Kept
<1>3. OperationsAreTimely'
  <2>1. \A o \in Log!Entries : Log!Recorded(o)' => Log!Recorded(o)
    BY DEF LogInv, Log!TypeOK, Log!Recorded
  <2>2. QED
    BY <2>1 DEF LogInv, OperationsAreTimely, Log!Entries
<1>4. StageFacts'
  <2>1. main # "serving" => Log!Running(Operations)' = Log!Running(Operations)
    BY DEF Log!ServerAssumption, LogInv, Log!TypeOK, Log!Running, Log!MayStart, Log!Entries
  <2>2. QED
    BY <2>1 DEF LogInv, StageFacts
<1>5. QED
  BY <1>1, <1>2, <1>3, <1>4 DEF LogInv

\* An entry that is recorded in time is settled or sent; the loop has not
\* begun its last flush, and an operation's entry is in time.
LEMMA EndLog ==
  ASSUME Log!ServerAssumption, LogInv, NEW e \in Log!Entries, Log!EndJob(e)
  PROVE  LogInv'
<1>1. Log!TypeOK /\ Kept /\ OperationsAreTimely /\ StageFacts
  BY DEF LogInv
<1>2. /\ job[e] = "running" /\ job' = [job EXCEPT ![e] = "ended"]
      /\ main' = main /\ dbOpen' = dbOpen /\ mode' = mode /\ batch' = batch /\ loop' = loop
  BY DEF Log!EndJob, Log!Record
<1>3. timely' = IF main \in Late \/ mode = "off" THEN timely ELSE timely \cup {e}
  BY <1>1, ReachedAuditAsked DEF Log!EndJob, Log!Record, Log!TypeOK
<1>4. \/ mode = "off" /\ logCh' = logCh /\ stored' = stored /\ excused' = excused
      \/ /\ logCh' = logCh /\ e \in stored' \cup excused'
         /\ stored' \in {stored, stored \cup {e}} /\ excused' \in {excused, excused \cup {e}}
      \/ /\ Len(logCh) < ChannelSize /\ logCh' = Append(logCh, e)
         /\ stored' = stored /\ excused' = excused
  BY DEF Log!EndJob, Log!Record, Log!Settle
<1>5. logCh \in Seq(Log!Entries)
  BY <1>1 DEF Log!TypeOK
<1>6. In(logCh) \subseteq In(logCh') /\ (logCh' = Append(logCh, e) => e \in In(logCh'))
  <2>1. In(Append(logCh, e)) = In(logCh) \cup {e}
    BY <1>5, InAppend
  <2>2. CASE logCh' = logCh
    BY <2>2, <2>1
  <2>3. CASE logCh' = Append(logCh, e)
    BY <2>3, <2>1 DEF In
  <2>4. QED
    BY <1>4, <2>2, <2>3
<1>7. Log!TypeOK'
  <2>1. logCh' \in Seq(Log!Entries) /\ Len(logCh') <= ChannelSize
    <3>1. CASE logCh' = logCh
      BY <3>1, <1>1 DEF Log!TypeOK
    <3>2. CASE Len(logCh) < ChannelSize /\ logCh' = Append(logCh, e)
      <4>1. Len(Append(logCh, e)) = Len(logCh) + 1 /\ Append(logCh, e) \in Seq(Log!Entries)
        BY <1>5
      <4>2. Len(logCh) \in Nat
        BY <1>5
      <4>3. Len(logCh) + 1 <= ChannelSize
        BY <3>2, <4>2 DEF Log!ServerAssumption
      <4>4. QED
        BY <3>2, <4>1, <4>3
    <3>3. QED
      BY <3>1, <3>2, <1>4
  <2>2. QED
    BY <1>1, <1>2, <1>3, <1>4, <2>1 DEF Log!TypeOK
<1>8. Kept'
  BY <1>1, <1>2, <1>3, <1>4, <1>6 DEF Kept, StageFacts
<1>9. OperationsAreTimely'
  <2>1. ASSUME e \in Operations
        PROVE  main \notin Late
    BY <1>1, <1>2, <2>1 DEF StageFacts, Log!Running, Late
  <2>2. \A o \in Operations : Log!Recorded(o)' => Log!Recorded(o) \/ o = e
    BY <1>1, <1>2 DEF Log!TypeOK, Log!Recorded, Log!Entries
  <2>3. QED
    BY <1>1, <1>2, <1>3, <2>1, <2>2 DEF OperationsAreTimely
<1>10. StageFacts'
  <2>1. Log!Running(Operations)' \subseteq Log!Running(Operations)
    BY <1>1, <1>2 DEF Log!TypeOK, Log!Running, Log!Entries
  <2>2. QED
    BY <1>1, <1>2, <1>3, <2>1 DEF StageFacts
<1>11. QED
  BY <1>7, <1>8, <1>9, <1>10 DEF LogInv

\* An entry goes from the channel to the batch.
LEMMA ReceiveLog ==
  ASSUME Log!ServerAssumption, LogInv, Log!Receive
  PROVE  LogInv'
<1>1. Log!TypeOK /\ Kept /\ OperationsAreTimely /\ StageFacts
  BY DEF LogInv
<1>2. /\ logCh # <<>> /\ loop = "select"
      /\ batch' = Append(batch, Head(logCh)) /\ logCh' = Tail(logCh)
      /\ loop' = IF Len(batch') >= BatchSize THEN "flush" ELSE "select"
      /\ UNCHANGED <<mode, main, job, dbOpen, stored, excused, timely>>
  BY DEF Log!Receive
<1>3. batch \in Seq(Log!Entries) /\ logCh \in Seq(Log!Entries)
  BY <1>1 DEF Log!TypeOK
<1>4. Head(logCh) \in Log!Entries /\ Tail(logCh) \in Seq(Log!Entries) /\ Len(Tail(logCh)) = Len(logCh) - 1
  BY <1>2, <1>3
<1>5. Append(batch, Head(logCh)) \in Seq(Log!Entries) /\ Len(Append(batch, Head(logCh))) = Len(batch) + 1
  BY <1>3, <1>4
<1>6. Len(batch') <= BatchSize /\ Len(logCh') <= ChannelSize
  <2>1. Len(batch) \in Nat /\ Len(logCh) \in Nat
    BY <1>3
  <2>2. Len(batch) < BatchSize /\ Len(logCh) <= ChannelSize
    BY <1>1, <1>2 DEF StageFacts, Log!TypeOK
  <2>3. QED
    BY <1>2, <1>4, <1>5, <2>1, <2>2 DEF Log!ServerAssumption
<1>7. Len(batch') \in Nat
  BY <1>2, <1>5
<1>8. Log!TypeOK'
  <2>1. Len(batch') <= BatchSize + ChannelSize
    BY <1>6, <1>7 DEF Log!ServerAssumption
  <2>2. QED
    BY <1>1, <1>2, <1>4, <1>5, <1>6, <2>1 DEF Log!TypeOK
<1>9. Kept'
  <2>1. In(batch') = In(batch) \cup {Head(logCh)}
    BY <1>2, <1>3, <1>4, InAppend
  <2>2. In(logCh) \subseteq {Head(logCh)} \cup In(logCh')
    BY <1>2, <1>3, InTail
  <2>3. QED
    BY <1>1, <1>2, <2>1, <2>2 DEF Kept
<1>10. OperationsAreTimely'
  BY <1>1, <1>2 DEF OperationsAreTimely, Log!Recorded
<1>11. StageFacts'
  <2>1. Log!Running(Operations)' = Log!Running(Operations)
    BY <1>2 DEF Log!Running
  <2>2. loop' = "select" => Len(batch') < BatchSize
    BY <1>2, <1>7 DEF Log!ServerAssumption
  <2>3. QED
    BY <1>1, <1>2, <2>1, <2>2 DEF StageFacts
<1>12. QED
  BY <1>8, <1>9, <1>10, <1>11 DEF LogInv

\* The last flush has what was in the channel.
LEMMA StopLog ==
  ASSUME Log!ServerAssumption, LogInv, Log!StopLoop
  PROVE  LogInv'
<1>1. Log!TypeOK /\ Kept /\ OperationsAreTimely /\ StageFacts
  BY DEF LogInv
<1>2. /\ loop = "select" /\ Log!Reached("auditAsked") /\ loop' = "final"
      /\ batch' = batch \o logCh /\ logCh' = <<>>
      /\ UNCHANGED <<mode, main, job, dbOpen, stored, excused, timely>>
  BY DEF Log!StopLoop, Log!Drained
<1>3. batch \in Seq(Log!Entries) /\ logCh \in Seq(Log!Entries)
  BY <1>1 DEF Log!TypeOK
<1>4. main \in Late
  BY <1>1, <1>2, ReachedAuditAsked DEF Log!TypeOK
<1>5. Log!TypeOK'
  <2>1. batch' \in Seq(Log!Entries) /\ Len(batch') = Len(batch) + Len(logCh)
    BY <1>2, <1>3
  <2>2. Len(batch) \in Nat /\ Len(logCh) \in Nat
    BY <1>3
  <2>3. Len(batch) < BatchSize /\ Len(logCh) <= ChannelSize
    BY <1>1, <1>2 DEF StageFacts, Log!TypeOK
  <2>4. Len(batch') <= BatchSize + ChannelSize
    BY <2>1, <2>2, <2>3 DEF Log!ServerAssumption
  <2>5. logCh' \in Seq(Log!Entries) /\ Len(logCh') <= ChannelSize
    BY <1>2 DEF Log!ServerAssumption
  <2>6. QED
    BY <1>1, <1>2, <2>1, <2>4, <2>5 DEF Log!TypeOK
<1>6. Kept'
  <2>1. In(batch) \cup In(logCh) \subseteq In(batch')
    BY <1>2, <1>3, InConcat
  <2>2. QED
    BY <1>1, <1>2, <2>1 DEF Kept
<1>7. OperationsAreTimely'
  BY <1>1, <1>2 DEF OperationsAreTimely, Log!Recorded
<1>8. StageFacts'
  <2>1. Log!Running(Operations)' = Log!Running(Operations)
    BY <1>2 DEF Log!Running
  <2>2. QED
    BY <1>1, <1>2, <1>4, <2>1 DEF StageFacts
<1>9. QED
  BY <1>5, <1>6, <1>7, <1>8 DEF LogInv

\* A flush settles the batch, whatever the insert answers.
LEMMA FlushLog ==
  ASSUME Log!ServerAssumption, LogInv, Log!Flushed
  PROVE  LogInv'
<1>1. Log!TypeOK /\ Kept /\ OperationsAreTimely /\ StageFacts
  BY DEF LogInv
<1>2. /\ loop \in {"flush", "final"} /\ batch' = <<>>
      /\ loop' = IF loop = "final" THEN "done" ELSE "select"
      /\ UNCHANGED <<mode, main, job, logCh, dbOpen, timely>>
  BY DEF Log!Flushed, Log!AfterFlush
<1>3. /\ stored' \in {stored, stored \cup In(batch)} /\ excused' \in {excused, excused \cup In(batch)}
      /\ In(batch) \subseteq stored' \cup excused'
  BY DEF Log!Flushed, Log!Settle, Log!InsertOutcomes, In
<1>4. Log!TypeOK'
  <2>1. In(batch) \subseteq Log!Entries
    BY <1>1 DEF Log!TypeOK, In
  <2>2. batch' \in Seq(Log!Entries) /\ Len(batch') <= BatchSize + ChannelSize
    BY <1>2 DEF Log!ServerAssumption
  <2>3. QED
    BY <1>1, <1>2, <1>3, <2>1, <2>2 DEF Log!TypeOK
<1>5. Kept'
  BY <1>1, <1>2, <1>3 DEF Kept
<1>6. OperationsAreTimely'
  BY <1>1, <1>2 DEF OperationsAreTimely, Log!Recorded
<1>7. StageFacts'
  <2>1. Log!Running(Operations)' = Log!Running(Operations)
    BY <1>2 DEF Log!Running
  <2>2. Len(batch') < BatchSize
    BY <1>2 DEF Log!ServerAssumption
  <2>3. QED
    BY <1>1, <1>2, <2>1, <2>2 DEF StageFacts
<1>8. QED
  BY <1>4, <1>5, <1>6, <1>7 DEF LogInv

\* The other steps move main or the loop and nothing an entry is in.
LEMMA MainLog ==
  ASSUME LogInv, Log!Quit \/ Log!MainStep \/ Log!Tick \/ UNCHANGED Log!vars
  PROVE  LogInv'
<1>1. Log!TypeOK /\ Kept /\ OperationsAreTimely /\ StageFacts
  BY DEF LogInv
<1>2. UNCHANGED <<mode, job, logCh, batch, stored, excused, timely>>
  BY DEF Log!Quit, Log!MainStep, Log!OperationsStopped, Log!EventsStopped, Log!AskAudit, Log!AuditStopped,
         Log!HTTPStopped,
         Log!CloseDB, Log!Advance, Log!Tick, Log!auditVars, Log!vars
<1>3. /\ loop' = loop \/ (loop = "select" /\ loop' = "flush" /\ main' = main /\ dbOpen' = dbOpen)
      /\ \/ main' = main /\ dbOpen' = dbOpen
         \/ main = "serving" /\ main' = "cancelled" /\ dbOpen' = dbOpen
         \/ /\ main = "cancelled" /\ main' = "operationsStopped" /\ Log!Running(Operations) = {}
            /\ dbOpen' = dbOpen
         \/ main = "operationsStopped" /\ main' = "eventsStopped" /\ dbOpen' = dbOpen
         \/ /\ main = "eventsStopped" /\ main' = IF mode = "off" THEN "auditStopped" ELSE "auditAsked"
            /\ dbOpen' = dbOpen
         \/ main = "auditAsked" /\ main' = "auditStopped" /\ loop = "done" /\ dbOpen' = dbOpen
         \/ main = "auditStopped" /\ main' = "httpStopped" /\ dbOpen' = dbOpen
         \/ main = "httpStopped" /\ main' = "exited" /\ dbOpen' = FALSE
  BY DEF Log!Quit, Log!MainStep, Log!OperationsStopped, Log!EventsStopped, Log!AskAudit, Log!AuditStopped,
         Log!HTTPStopped,
         Log!CloseDB, Log!Advance, Log!AwaitOperations, Log!AwaitAudit, Log!Tick, Log!auditVars, Log!vars
<1>4. Log!TypeOK'
  BY <1>1, <1>2, <1>3, StageNames DEF Log!TypeOK, Late
<1>5. Kept'
  BY <1>1, <1>2, <1>3 DEF Kept
<1>6. OperationsAreTimely'
  BY <1>1, <1>2 DEF OperationsAreTimely, Log!Recorded
<1>7. StageFacts'
  <2>1. Log!Running(Operations)' = Log!Running(Operations)
    BY <1>2 DEF Log!Running
  <2>2. QED
    BY <1>1, <1>2, <1>3, <2>1 DEF StageFacts, Late, Stopped
<1>8. QED
  BY <1>4, <1>5, <1>6, <1>7 DEF LogInv

LEMMA LogInit ==
  ASSUME Log!ServerAssumption, Log!Init
  PROVE  LogInv
<1>1. Log!TypeOK
  BY StageNames DEF Log!ServerAssumption, Log!Init, Log!TypeOK
<1>2. Kept /\ OperationsAreTimely /\ StageFacts
  BY DEF Log!ServerAssumption, Log!Init, Kept, OperationsAreTimely, StageFacts, Log!Recorded,
         Log!Running, Late,
         Stopped, Log!Entries
<1>3. QED
  BY <1>1, <1>2 DEF LogInv

LEMMA LogStep ==
  ASSUME Log!ServerAssumption, LogInv, [Log!Next]_(Log!vars)
  PROVE  LogInv'
BY StartLog, EndLog, ReceiveLog, StopLog, FlushLog, MainLog DEF Log!Next, Log!LoopStep

\* LogInv holds throughout, for any requests, operations, checks, channel
\* and batch sizes.
THEOREM LogInvariance == Log!Spec => []LogInv
<1>1. Log!Init => LogInv
  BY ServerAssumption, LogInit
<1>2. LogInv /\ [Log!Next]_(Log!vars) => LogInv'
  BY ServerAssumption, LogStep
<1>3. QED
  BY <1>1, <1>2, PTL DEF Log!Spec

LEMMA LogIsKept == LogInv => StoppedMeansStored
BY DEF LogInv, Kept, OperationsAreTimely, StageFacts, Stopped, Late, StoppedMeansStored,
       Log!StoppedMeansStored

\* Once the flush loop has ended, what was recorded before the audit service
\* was asked to stop is stored or excused; and when the process has exited,
\* so is every operation's entry (the order of the stops in main.go).
THEOREM StoredWhenStopped == Log!Spec => []StoppedMeansStored
BY LogIsKept, LogInvariance, PTL

\* The flush loop writes to an open database only (audit_service.go, flush;
\* main.go closes the database last).
THEOREM OpenDatabase == Log!Spec => []Log!FlushesWhileOpen
<1>1. LogInv => Log!FlushesWhileOpen
  BY DEF LogInv, StageFacts, Stopped, Late, Log!FlushesWhileOpen
<1>2. QED
  BY <1>1, LogInvariance, PTL

-----------------------------------------------------------------------------
(***************************************************************************)
(* Access control, for any edits of the custom role.                       *)
(***************************************************************************)

\* Only the custom role is ever other than it was seeded.
RolesAsSeeded ==
  /\ DOMAIN permissions = Rights!Roles
  /\ \A who \in Rights!Roles : who # "custom" => permissions[who] = Rights!Seeded[who]

RightsInv == RolesAsSeeded /\ WritesWithinOwnPrivileges

\* The resource and the action of the routes that do what the tools do.
LEMMA RouteByKind ==
  LET path == <<"clusters", ":", "resources", ":">> IN
    /\ path[1] = "clusters"
    /\ Rights!ExtractResource(path) = "resources" /\ Rights!ExtractAction("POST", path) = "create"
<1> DEFINE path == <<"clusters", ":", "resources", ":">>
<1>1. DOMAIN path = 1..4 /\ path[1] = "clusters" /\ path[2] = ":" /\ path[3] = "resources" /\ path[4] = ":"
      /\ Len(path) = 4
  OBVIOUS
<1> HIDE DEF path
<1>2. \A i \in DOMAIN path : (path[i] # ":" /\ \A j \in DOMAIN path : j > i => path[j] = ":") <=> i = 3
  BY <1>1
<1>3. (CHOOSE i \in DOMAIN path : path[i] # ":" /\ \A j \in DOMAIN path : j > i => path[j] = ":") = 3
  BY <1>1, <1>2
<1>4. Rights!ExtractResource(path) = "resources"
  BY <1>1, <1>3 DEF Rights!ExtractResource
<1>5. Rights!ExtractAction("POST", path) = "create"
  BY <1>1 DEF Rights!ExtractAction, Rights!ActionOf
<1>6. QED
  BY <1>1, <1>4, <1>5 DEF path

LEMMA Longer ==
  ASSUME NEW S, NEW s \in Seq(S), NEW e \in S
  PROVE  /\ DOMAIN Append(s, e) = 1..(Len(s) + 1) /\ Len(Append(s, e)) = Len(s) + 1
         /\ \A i \in 1..Len(s) : Append(s, e)[i] = s[i]
         /\ Append(s, e)[Len(s) + 1] = e
OBVIOUS

LEMMA RouteByName ==
  LET path == Append(<<"clusters", ":", "resources", ":">>, ":") IN
    /\ path[1] = "clusters"
    /\ Rights!ExtractResource(path) = "resources"
    /\ Rights!ExtractAction("PUT", path) = "update" /\ Rights!ExtractAction("PATCH", path) = "update"
    /\ Rights!ExtractAction("DELETE", path) = "delete"
<1> DEFINE short == <<"clusters", ":", "resources", ":">>
           path == Append(short, ":")
           Names == {"clusters", ":", "resources"}
<1>1. /\ short \in Seq(Names) /\ Len(short) = 4 /\ ":" \in Names
      /\ short[1] = "clusters" /\ short[2] = ":" /\ short[3] = "resources" /\ short[4] = ":"
  OBVIOUS
<1> HIDE DEF short, Names
<1>2. DOMAIN path = 1..5 /\ path[1] = "clusters" /\ path[2] = ":" /\ path[3] = "resources" /\ path[4] = ":"
      /\ path[5] = ":" /\ Len(path) = 5
  <2>1. /\ DOMAIN path = 1..(Len(short) + 1) /\ Len(path) = Len(short) + 1
        /\ (\A i \in 1..Len(short) : path[i] = short[i]) /\ path[Len(short) + 1] = ":"
    <3>1. short \in Seq(Names) /\ ":" \in Names
      BY <1>1
    <3>2. QED
      BY <3>1, Longer, Zenon
  <2>2. QED
    BY <1>1, <2>1
<1> HIDE DEF path
<1>3. \A i \in DOMAIN path : (path[i] # ":" /\ \A j \in DOMAIN path : j > i => path[j] = ":") <=> i = 3
  BY <1>2
<1>4. (CHOOSE i \in DOMAIN path : path[i] # ":" /\ \A j \in DOMAIN path : j > i => path[j] = ":") = 3
  BY <1>2, <1>3
<1>5. Rights!ExtractResource(path) = "resources"
  BY <1>2, <1>4 DEF Rights!ExtractResource
<1>6. /\ Rights!ExtractAction("PUT", path) = "update" /\ Rights!ExtractAction("PATCH", path) = "update"
      /\ Rights!ExtractAction("DELETE", path) = "delete"
  BY <1>2 DEF Rights!ExtractAction, Rights!ActionOf
<1>7. QED
  BY <1>2, <1>5, <1>6 DEF path, short, Names

\* The right a mutation tool asks for, as RBAC would ask for it by HTTP.
Asked ==
  [tool \in Rights!MutationTools |->
     IF tool = "create_resource" THEN "create"
     ELSE IF tool = "delete_resource" THEN "delete" ELSE "update"]

LEMMA Routes ==
  ASSUME NEW tool \in Rights!MutationTools
  PROVE  LET route == Rights!SameByHTTP(tool)
             path == <<"clusters", ":", "resources", ":">> IN
         route = IF tool = "create_resource" THEN <<"POST", path>>
                 ELSE IF tool = "delete_resource" THEN <<"DELETE", Append(path, ":")>>
                 ELSE IF tool = "update_resource" THEN <<"PUT", Append(path, ":")>>
                 ELSE <<"PATCH", Append(path, ":")>>
<1>1. CASE tool = "create_resource"
  BY <1>1, Zenon DEF Rights!SameByHTTP
<1>2. CASE tool = "delete_resource"
  BY <1>2, Zenon DEF Rights!SameByHTTP
<1>3. CASE tool = "update_resource"
  BY <1>3, Zenon DEF Rights!SameByHTTP
<1>4. CASE tool = "patch_resource"
  BY <1>4, Zenon DEF Rights!SameByHTTP
<1>5. QED
  BY <1>1, <1>2, <1>3, <1>4 DEF Rights!MutationTools

LEMMA Needed ==
  ASSUME NEW tool \in Rights!MutationTools, NEW kind
  PROVE  Rights!RequiredPermission(tool, kind) = <<kind, Asked[tool]>>
<1>1. CASE tool = "create_resource"
  BY <1>1, Zenon DEF Rights!RequiredPermission, Asked
<1>2. CASE tool = "delete_resource"
  BY <1>2, Zenon DEF Rights!RequiredPermission, Asked
<1>3. CASE tool = "update_resource"
  BY <1>3, Zenon DEF Rights!RequiredPermission, Asked
<1>4. CASE tool = "patch_resource"
  BY <1>4, Zenon DEF Rights!RequiredPermission, Asked
<1>5. QED
  BY <1>1, <1>2, <1>3, <1>4 DEF Rights!MutationTools

\* What the roles are seeded with.
LEMMA SeededRoles ==
  /\ DOMAIN Rights!Seeded = Rights!Roles
  /\ Rights!Seeded["editor"] = Rights!EditorGrants
  /\ Rights!Seeded["viewer"] = Rights!ViewerGrants
  /\ Rights!Seeded["custom"] = Rights!ReadResources
<1>1. DOMAIN Rights!Seeded = Rights!Roles
  BY Zenon DEF Rights!Seeded
<1>2. /\ {"editor", "viewer", "custom"} \subseteq Rights!Roles
      /\ "editor" \notin Rights!AdminRoles /\ "viewer" \notin Rights!AdminRoles
      /\ "custom" \notin Rights!AdminRoles
  BY DEF Rights!Roles, Rights!AdminRoles
<1>3. Rights!Seeded["editor"] = Rights!EditorGrants
  BY <1>2, Zenon DEF Rights!Seeded
<1>4. Rights!Seeded["viewer"] = Rights!ViewerGrants
  BY <1>2, Zenon DEF Rights!Seeded
<1>5. Rights!Seeded["custom"] = Rights!ReadResources
  BY <1>2, Zenon DEF Rights!Seeded
<1>6. QED
  BY <1>1, <1>3, <1>4, <1>5

LEMMA EditorWrites ==
  ASSUME NEW tool \in Rights!MutationTools
  PROVE  Rights!HasPermission(Rights!EditorGrants, "resources", Asked[tool])
<1>1. <<"resources", Asked[tool]>> \in Rights!EditorGrants
  BY DEF Rights!EditorGrants, Asked
<1>2. QED
  BY <1>1 DEF Rights!HasPermission

LEMMA ReadersDoNotWrite ==
  ASSUME NEW tool \in Rights!MutationTools, NEW kind \in Rights!Kinds, NEW resource \in {kind, "resources"}
  PROVE  /\ ~Rights!HasPermission(Rights!ViewerGrants, resource, Asked[tool])
         /\ ~Rights!HasPermission(Rights!ReadResources, resource, Asked[tool])
<1>1. Asked[tool] \in {"create", "update", "delete"}
  BY DEF Asked
<1>2. resource \in {"pods", "deployments", "secrets", "clusterroles", "nodes", "resources"}
  BY DEF Rights!Kinds
<1>3. \A p \in Rights!ReadResources : p[2] \in {"get", "list"}
  BY DEF Rights!ReadResources
<1>4. \A p \in Rights!ViewerGrants :
        \/ p[2] \in {"get", "list", "read"}
        \/ p[1] \in {"favorites", "compare"} /\ p[2] # "*"
  BY <1>3 DEF Rights!ViewerGrants, Rights!FavoriteGrants
<1>5. QED
  BY <1>1, <1>2, <1>3, <1>4 DEF Rights!HasPermission

\* The administrators' routes are not about objects of a cluster.
LEMMA AdminPaths == \A r \in Rights!AdminRoutes : r[2][1] # "clusters"
<1>1. ASSUME NEW S, NEW s \in Seq(S), NEW t \in Seq(S), s # <<>>
      PROVE  (s \o t)[1] = s[1]
  BY <1>1
<1> DEFINE Names == {"directory", "config", "test", "preview"}
           directory == <<"directory">>
<1>2. /\ directory \in Seq(Names) /\ directory # <<>> /\ directory[1] = "directory"
      /\ <<"config">> \in Seq(Names) /\ <<"test">> \in Seq(Names) /\ <<"preview">> \in Seq(Names)
  OBVIOUS
<1> HIDE DEF directory, Names
<1>3. \A r \in Rights!Under(directory, {<<"GET", <<"config">>>>, <<"PUT", <<"config">>>>,
                                        <<"POST", <<"test">>>>, <<"POST", <<"preview">>>>}) :
        r[2][1] = "directory"
  <2>1. ASSUME NEW t \in Seq(Names) PROVE (directory \o t)[1] = "directory"
    BY <1>1, <1>2
  <2>2. QED
    BY <1>2, <2>1 DEF Rights!Under
<1>4. QED
  BY <1>3 DEF Rights!AdminRoutes, directory

\* The routes of the mutation tools, as RBAC reads them.
LEMMA RouteFacts ==
  ASSUME NEW tool \in Rights!MutationTools
  PROVE  LET route == Rights!SameByHTTP(tool) IN
         /\ route[1] \in {"POST", "PUT", "PATCH", "DELETE"} /\ route[2][1] = "clusters"
         /\ Rights!ExtractResource(route[2]) = "resources"
         /\ Rights!ExtractAction(route[1], route[2]) = Asked[tool]
<1> DEFINE route == Rights!SameByHTTP(tool)
           path == <<"clusters", ":", "resources", ":">>
           longer == Append(path, ":")
<1>1. path[1] = "clusters" /\ longer[1] = "clusters"
  BY RouteByKind, RouteByName
<1>2. /\ Rights!ExtractResource(path) = "resources" /\ Rights!ExtractAction("POST", path) = "create"
      /\ Rights!ExtractResource(longer) = "resources" /\ Rights!ExtractAction("PUT", longer) = "update"
      /\ Rights!ExtractAction("PATCH", longer) = "update" /\ Rights!ExtractAction("DELETE", longer) = "delete"
  BY RouteByKind, RouteByName
<1>3. route = IF tool = "create_resource" THEN <<"POST", path>>
              ELSE IF tool = "delete_resource" THEN <<"DELETE", longer>>
              ELSE IF tool = "update_resource" THEN <<"PUT", longer>> ELSE <<"PATCH", longer>>
  BY Routes
<1> HIDE DEF route, path, longer
<1>4. /\ route[1] \in {"POST", "PUT", "PATCH", "DELETE"} /\ route[2][1] = "clusters"
      /\ Rights!ExtractResource(route[2]) = "resources"
      /\ Rights!ExtractAction(route[1], route[2]) = Asked[tool]
  <2>1. CASE tool = "create_resource"
    BY <1>1, <1>2, <1>3, <2>1 DEF Asked
  <2>2. CASE tool = "delete_resource"
    BY <1>1, <1>2, <1>3, <2>2 DEF Asked
  <2>3. CASE tool = "update_resource"
    BY <1>1, <1>2, <1>3, <2>3 DEF Asked
  <2>4. CASE tool = "patch_resource"
    BY <1>1, <1>2, <1>3, <2>4 DEF Asked
  <2>5. QED
    BY <2>1, <2>2, <2>3, <2>4 DEF Rights!MutationTools
<1>5. QED
  BY <1>4 DEF route

\* Over HTTP, who may do what a mutation tool does.
LEMMA SameRoute ==
  ASSUME NEW who \in Rights!Roles, NEW tool \in Rights!MutationTools,
         Rights!RoleHas(who, "resources", Asked[tool])
  PROVE  Rights!MayCall(who, Rights!SameByHTTP(tool))
<1> DEFINE route == Rights!SameByHTTP(tool)
<1>1. /\ route[1] \in {"POST", "PUT", "PATCH", "DELETE"} /\ route[2][1] = "clusters"
      /\ Rights!ExtractResource(route[2]) = "resources"
      /\ Rights!ExtractAction(route[1], route[2]) = Asked[tool]
  BY RouteFacts
<1> HIDE DEF route
<1>2. route \notin DOMAIN Rights!HandlerPermission
  <2>1. \A r \in DOMAIN Rights!HandlerPermission : r[1] \in {"GET", "HEAD"}
    BY DEF Rights!HandlerPermission
  <2>2. QED
    BY <1>1, <2>1
<1>3. route \notin Rights!AdminRoutes
  BY <1>1, AdminPaths
<1>4. QED
  BY <1>1, <1>2, <1>3 DEF Rights!MayCall, route

\* What the assistant lets through.  A role that was never edited writes only
\* if it is the editor; an edited one by a permission on "resources" or on
\* everything, as over HTTP, unless by one on the kind.
LEMMA AssistantWrites ==
  ASSUME RolesAsSeeded, NEW who \in Rights!Roles, NEW tool \in Rights!MutationTools,
         NEW kind \in Rights!Kinds, NEW privileged \in BOOLEAN,
         ~(who = "custom" /\ Rights!NamesKind(tool, kind)),
         Rights!MayUse(who, tool, kind, privileged)
  PROVE  Rights!MayCall(who, Rights!SameByHTTP(tool))
<1>1. CASE who \in Rights!AdminRoles
  BY <1>1, SameRoute DEF Rights!RoleHas
<1>2. CASE who \notin Rights!AdminRoles
  <2>1. PICK resource \in {kind, "resources"} :
          Rights!HasPermission(permissions[who], resource, Asked[tool])
    <3>1. Rights!RequiredPermission(tool, kind) = <<kind, Asked[tool]>>
      BY Needed
    <3>2. <<kind, Asked[tool]>>[1] = kind /\ <<kind, Asked[tool]>>[2] = Asked[tool]
      OBVIOUS
    <3>3. QED
      BY <1>2, <3>1, <3>2 DEF Rights!MayUse
  <2>2. CASE who # "custom"
    <3>1. permissions[who] = Rights!Seeded[who]
      BY <2>2 DEF RolesAsSeeded
    <3>2. who = "editor"
      BY <1>2, <2>1, <2>2, <3>1, SeededRoles, ReadersDoNotWrite DEF Rights!Roles, Rights!AdminRoles
    <3>3. QED
      BY <3>1, <3>2, SeededRoles, EditorWrites, SameRoute DEF Rights!RoleHas
  <2>3. CASE who = "custom"
    <3>1. PICK p \in permissions[who] : p[1] \in {"*", resource} /\ p[2] \in {"*", Asked[tool]}
      BY <2>1 DEF Rights!HasPermission
    <3>2. \A q \in permissions["custom"] : ~(q[1] = kind /\ q[2] \in {"*", Asked[tool]})
      BY <2>3, RouteFacts DEF Rights!NamesKind
    <3>3. p[1] \in {"*", "resources"}
      BY <2>1, <2>3, <3>1, <3>2
    <3>4. Rights!RoleHas(who, "resources", Asked[tool])
      BY <3>1, <3>3 DEF Rights!RoleHas, Rights!HasPermission
    <3>5. QED
      BY <3>4, SameRoute
  <2>4. QED
    BY <2>2, <2>3
<1>3. QED
  BY <1>1, <1>2

LEMMA RightsInit == Rights!Init => RightsInv
<1> SUFFICES ASSUME Rights!Init PROVE RightsInv
  OBVIOUS
<1>1. RolesAsSeeded
  BY SeededRoles DEF Rights!Init, RolesAsSeeded
<1>2. WritesWithinOwnPrivileges
  BY DEF Rights!Init, WritesWithinOwnPrivileges, Rights!WritesWithinOwnPrivileges, Rights!Served
<1>3. QED
  BY <1>1, <1>2 DEF RightsInv

LEMMA RightsStep == RightsInv /\ [Rights!Next]_(Rights!vars) => RightsInv'
<1> SUFFICES ASSUME RightsInv, [Rights!Next]_(Rights!vars) PROVE RightsInv'
  OBVIOUS
<1> USE DEF RightsInv
<1>1. CASE UNCHANGED Rights!vars
  BY <1>1 DEF Rights!vars, RolesAsSeeded, WritesWithinOwnPrivileges, Rights!WritesWithinOwnPrivileges,
              Rights!Served, Rights!MayCall, Rights!RoleHas, Rights!NamesKind
<1>2. CASE Rights!Restart \/ Rights!EditRole
  <2>1. RolesAsSeeded'
    BY <1>2, SeededRoles DEF Rights!Restart, Rights!EditRole, RolesAsSeeded
  <2>2. answer' = Rights!NoAnswer
    BY <1>2 DEF Rights!Restart, Rights!EditRole
  <2>3. QED
    BY <2>1, <2>2 DEF WritesWithinOwnPrivileges, Rights!WritesWithinOwnPrivileges, Rights!Served
<1>3. ASSUME NEW who \in Rights!Roles, NEW route, Rights!Request(who, route)
      PROVE  RightsInv'
  <2>1. RolesAsSeeded' /\ answer'.by = "http"
    BY <1>3 DEF Rights!Request, RolesAsSeeded
  <2>2. QED
    BY <2>1 DEF WritesWithinOwnPrivileges, Rights!WritesWithinOwnPrivileges, Rights!Served
<1>4. ASSUME NEW who \in Rights!Roles, NEW tool \in Rights!Tools, NEW kind \in Rights!Kinds,
             NEW privileged \in BOOLEAN, Rights!ToolCall(who, tool, kind, privileged)
      PROVE  RightsInv'
  <2>1. RolesAsSeeded' /\ permissions' = permissions
    BY <1>4 DEF Rights!ToolCall, RolesAsSeeded
  <2>2. /\ answer'.role = who /\ answer'.call[1] = tool /\ answer'.call[2] = kind
        /\ (answer'.ok <=> Rights!MayUse(who, tool, kind, privileged))
    BY <1>4 DEF Rights!ToolCall
  <2>3. ASSUME answer'.ok, tool \in Rights!MutationTools,
               ~(who = "custom" /\ Rights!NamesKind(tool, kind))
        PROVE  Rights!MayCall(who, Rights!SameByHTTP(tool))
    BY <2>2, <2>3, AssistantWrites
  <2>4. /\ Rights!MayCall(who, Rights!SameByHTTP(tool))' <=> Rights!MayCall(who, Rights!SameByHTTP(tool))
        /\ Rights!NamesKind(tool, kind)' <=> Rights!NamesKind(tool, kind)
    BY <2>1 DEF Rights!MayCall, Rights!RoleHas, Rights!NamesKind
  <2>5. WritesWithinOwnPrivileges'
    BY <2>1, <2>2, <2>3, <2>4 DEF WritesWithinOwnPrivileges, Rights!WritesWithinOwnPrivileges, Rights!Served
  <2>6. QED
    BY <2>1, <2>5
<1>5. QED
  BY <1>1, <1>2, <1>3, <1>4 DEF Rights!Next

\* What the assistant changes for a user, the user may change over HTTP, for
\* every role and whatever permissions an operator gives the custom one, short
\* of a permission on the very kind that is changed.
THEOREM AssistantIsNoMore == Rights!Spec => []WritesWithinOwnPrivileges
<1>1. RightsInv => WritesWithinOwnPrivileges
  BY DEF RightsInv
<1>2. QED
  BY <1>1, RightsInit, RightsStep, PTL DEF Rights!Spec

-----------------------------------------------------------------------------
(***************************************************************************)
(* The sum that the runs check: each part starts as it does alone, a step  *)
(* of the sum is a step of one part and a stutter of the others.           *)
(***************************************************************************)

LEMMA SumSteps ==
  [MCNext]_all => [Next]_vars /\ [Log!Next]_(Log!vars) /\ [Rights!Next]_(Rights!vars)
BY DEF MCNext, all, logVars, rightsVars, Log!vars, Rights!vars

\* In the sum: a change is applied once for its approval and once for each
\* retry, every call of the model is answered, no audit entry is lost at
\* shutdown, and the assistant changes nothing that its user may not change
\* over HTTP, except by a permission of the custom role on the kind.
THEOREM RequestsAreSafe ==
  MCSpec => [](/\ AppliedAsApproved /\ EveryCallIsAnswered
               /\ StoppedMeansStored /\ WritesWithinOwnPrivileges)
<1> DEFINE SumInv == IInv /\ LogInv /\ RightsInv
<1>1. MCInit => SumInv
  BY AIAssumption, ServerAssumption, InitIInv, LogInit, RightsInit DEF MCInit
<1>2. SumInv /\ [MCNext]_all => SumInv'
  BY SumSteps, AIAssumption, ServerAssumption, StepIInv, LogStep, RightsStep
<1>3. SumInv => /\ AppliedAsApproved /\ EveryCallIsAnswered
                /\ StoppedMeansStored /\ WritesWithinOwnPrivileges
  BY AIAssumption, AppliedIsApproved, CallsAreAnswered, LogIsKept DEF RightsInv
<1>4. QED
  BY <1>1, <1>2, <1>3, PTL DEF MCSpec
=============================================================================
