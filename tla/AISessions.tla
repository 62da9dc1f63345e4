----------------------------- MODULE AISessions -----------------------------
(***************************************************************************)
(* The AI assistant: src/internal/ai/agent.go (the tool loop), session.go  *)
(* (changes that wait for approval), authz.go and operations.go, with the  *)
(* handler that hands an approved change to the operation manager          *)
(* (handler/ai_handler.go).  The command line resumes the conversation     *)
(* itself (ContinueAction); browsers only queue the change                 *)
(* (ApproveAction).  Text, prompts and tool results are left out; a        *)
(* conversation is how many of its tool calls have no result yet.          *)
(***************************************************************************)
EXTENDS Naturals, Sequences, FiniteSets

CONSTANTS
  Users, Admins,  \* Admins: who is an administrator at first
  Turns,          \* Turns: chat requests that may run at a time
  Changes, Risky, \* the changes a model may ask for; those only an admin may make
  MaxPending, MaxPerUser,  \* 100 and 5
  MaxIterations,  \* 12
  MaxEmpty,       \* 2
  MaxCalls,       \* bound: tool calls in one reply
  MaxChats,       \* bound: chat and resumed requests
  MaxRetries,     \* bound: retries of one approved change
  MaxEvents       \* bound: role and configuration changes, crashes, failed submissions

ASSUME AIAssumption ==
  /\ Risky \subseteq Changes /\ {"read", "none"} \cap Changes = {}
  /\ {MaxPending, MaxPerUser, MaxIterations, MaxEmpty, MaxCalls, MaxChats, MaxRetries, MaxEvents} \subseteq Nat

VARIABLES
  role,      \* the users table
  ready,     \* the saved configuration is enabled and has a key
  turn,      \* the chat requests
  session,   \* sessionStore.sessions
  op,        \* operations for approved changes that are queued, run, or may be retried
  ids, chats, events,  \* numbering and counters of the bounds
  approved,  \* history: who approved what, by session
  retried,   \* history: retries of a session's operations
  applied    \* history: how often a session's change was applied

vars == <<role, ready, turn, session, op, ids, chats, events, approved, retried, applied>>
people == <<role, ready>>
past   == <<approved, retried, applied>>

-----------------------------------------------------------------------------
Ids == 1..MaxChats
Roles == {"admin", "editor", "viewer"}
Call == {"read"} \cup Changes
NoTurn == [pc |-> "none"]
NewTurn(u, unanswered) ==
  [pc |-> "stream", user |-> u, role |-> role[u], iteration |-> 1, empty |-> 0,
   calls |-> <<>>, unanswered |-> unanswered, pending |-> "none"]
Happens == events < MaxEvents /\ events' = events + 1

Init ==
  /\ role = [u \in Users |-> IF u \in Admins THEN "admin" ELSE "editor"]
  /\ ready = TRUE
  /\ turn = [t \in Turns |-> NoTurn]
  /\ session = {} /\ op = {}
  /\ ids = 0 /\ chats = 0 /\ events = 0
  /\ approved = {}
  /\ retried = [i \in Ids |-> 0]
  /\ applied = [i \in Ids |-> 0]

\* authorize, for the changes: admins pass, others need the permission of
\* their role and no high risk.  Reads are allowed to all roles here.
Permits(r, change) ==
  \/ r = "admin"
  \/ r = "editor" /\ change \notin Risky

-----------------------------------------------------------------------------
(* The tool loop.                                                          *)

Chat(t, u) ==
  /\ turn[t] = NoTurn /\ ready
  /\ chats < MaxChats /\ chats' = chats + 1
  /\ turn' = [turn EXCEPT ![t] = NewTurn(u, 0)]
  /\ UNCHANGED <<people, session, op, ids, events, past>>

IterationsOfAnswers(k) == IF k.empty > 0 THEN k.iteration + 1 ELSE k.iteration \* mutant: only retries are counted
NextIteration(k) == k.iteration + 1

\* The next round of the loop, or its ceiling.
Again(k) == IF k.iteration < MaxIterations
            THEN [k EXCEPT !.pc = "stream", !.iteration = NextIteration(k)] ELSE NoTurn

\* What parseStream can put together from a stream: some calls, in order.
Replies == UNION {[1..n -> Call] : n \in 1..MaxCalls}

\* The model's answer: an error or a final text, nothing at all, or calls.
Streamed(t) ==
  LET k == turn[t] IN
  /\ k.pc = "stream"
  /\ \/ turn' = [turn EXCEPT ![t] = NoTurn]
     \/ turn' = [turn EXCEPT ![t] =
          IF k.empty + 1 >= MaxEmpty THEN NoTurn ELSE Again([k EXCEPT !.empty = @ + 1])]
     \/ \E calls \in Replies :
          turn' = [turn EXCEPT ![t] =
            [k EXCEPT !.pc = "tools", !.calls = calls, !.empty = 0, !.unanswered = @ + Len(calls)]]
  /\ UNCHANGED <<people, session, op, ids, chats, events, past>>

\* A call is skipped behind a pending change, forbidden, executed, or kept as
\* the pending change; all but the last get a result.
KeepsPending(k, c) == k.pending = "none" /\ c # "read" /\ Permits(k.role, c)
DenialUnanswered(k, c) == k.pending # "none" \/ c = "read"  \* mutant: a refused call is only reported to the browser
Answers(k, c) == ~KeepsPending(k, c)

CallTool(t) ==
  LET k == turn[t]  c == Head(k.calls) IN
  /\ k.pc = "tools" /\ k.calls # <<>>
  /\ turn' = [turn EXCEPT ![t].calls = Tail(@),
                          ![t].unanswered = IF Answers(k, c) THEN @ - 1 ELSE @,
                          ![t].pending = IF KeepsPending(k, c) THEN c ELSE @]
  /\ UNCHANGED <<people, session, op, ids, chats, events, past>>

CallsDone(t) ==
  /\ turn[t].pc = "tools" /\ turn[t].calls = <<>> /\ turn[t].pending = "none"
  /\ turn' = [turn EXCEPT ![t] = Again(turn[t])]
  /\ UNCHANGED <<people, session, op, ids, chats, events, past>>

-----------------------------------------------------------------------------
(* Changes that wait for approval.                                         *)

EvictNothing(s) == s  \* mutant: expired sessions only go when they are taken
Evict(s) == {x \in s : ~x.expired}
RoomForOneMore(s, u) ==  \* mutant: off by one
  Cardinality(s) <= MaxPending /\ Cardinality({x \in s : x.user = u}) <= MaxPerUser
HasRoom(s, u) ==
  Cardinality(s) < MaxPending /\ Cardinality({x \in s : x.user = u}) < MaxPerUser

\* save, and the end of the turn.
SaveSession(t) ==
  LET k == turn[t]  kept == Evict(session) IN
  /\ k.pc = "tools" /\ k.calls = <<>> /\ k.pending # "none"
  /\ turn' = [turn EXCEPT ![t] = NoTurn]
  /\ IF HasRoom(kept, k.user)
     THEN /\ session' = kept \cup {[id |-> ids + 1, user |-> k.user, change |-> k.pending,
                                    unanswered |-> k.unanswered, expired |-> FALSE]}
          /\ ids' = ids + 1
     ELSE session' = kept /\ UNCHANGED ids
  /\ UNCHANGED <<people, op, chats, events, past>>

SessionExpires(s) ==
  /\ s \in session /\ ~s.expired
  /\ session' = (session \ {s}) \cup {[s EXCEPT !.expired = TRUE]}
  /\ UNCHANGED <<people, turn, op, ids, chats, events, past>>

TakesAnyones(s, u) == ~s.expired  \* mutant: the owner is not compared
Takes(s, u) == ~s.expired /\ s.user = u
KeepTaken(s) == session  \* mutant: the session is looked up and left
Without(s) == session \ {s}

\* takeOwned: an expired session goes too, another user's stays.
TakeOwned(s, u) ==
  /\ s \in session
  /\ session' = IF Takes(s, u) \/ s.expired THEN Without(s) ELSE session

Remember(s, u) == approved' = approved \cup {[session |-> s.id, owner |-> s.user, by |-> u, change |-> s.change]}

\* ApproveAction and Submit, which may fail after the session is gone.
Approve(s, u) ==
  /\ TakeOwned(s, u)
  /\ \/ /\ ~Takes(s, u)
        /\ UNCHANGED <<op, events, approved>>
     \/ /\ Takes(s, u)
        /\ op' = op \cup {[session |-> s.id, user |-> u, change |-> s.change, attempt |-> 0,
                           pc |-> "queued"]}
        /\ Remember(s, u) /\ UNCHANGED events
     \/ /\ Takes(s, u)
        /\ Happens /\ UNCHANGED <<op, approved>>
  /\ UNCHANGED <<people, turn, ids, chats, retried, applied>>

\* ContinueAction: the change is made in this request, and the conversation
\* goes on with its result.
Continue(s, u, t) ==
  /\ TakeOwned(s, u) /\ turn[t] = NoTurn
  /\ chats < MaxChats /\ chats' = chats + 1
  /\ IF Takes(s, u) /\ ready
     THEN /\ Remember(s, u)
          /\ turn' = [turn EXCEPT ![t] = NewTurn(u, s.unanswered - 1)]
          /\ \/ /\ Permits(role[u], s.change)
                /\ applied' = [applied EXCEPT ![s.id] = @ + 1]
             \/ UNCHANGED applied  \* refused, or the cluster fails
     ELSE UNCHANGED <<turn, approved, applied>>
  /\ UNCHANGED <<people, op, ids, events, retried>>

-----------------------------------------------------------------------------
(* Execution by the operation manager: an operation runs at most once, but *)
(* one that failed before its executor ran stays there to be retried.      *)

Authorized(o) == ready /\ Permits(role[o.user], o.change)

Becomes(o, pc) == (op \ {o}) \cup {[o EXCEPT !.pc = pc]}

\* The row and its owner are loaded, the executor is looked up, and the
\* executor checks the configuration and the permission.  Loading and looking
\* up fail retryably; the other refusals end the operation.
Begin(o) ==
  /\ o \in op /\ o.pc = "queued"
  /\ \/ op' = Becomes(o, "failed")
     \/ Authorized(o) /\ op' = Becomes(o, "running")
     \/ ~Authorized(o) /\ op' = op \ {o}
  /\ UNCHANGED <<people, turn, session, ids, chats, events, past>>

\* Manager.Retry queues a copy; the failed operation may be retried again.
Retry(o) ==
  /\ o \in op /\ o.pc = "failed"
  /\ retried[o.session] < MaxRetries
  /\ retried' = [retried EXCEPT ![o.session] = @ + 1]
  /\ op' = op \cup {[o EXCEPT !.attempt = retried[o.session] + 1, !.pc = "queued"]}
  /\ UNCHANGED <<people, turn, session, ids, chats, events, approved, applied>>

Apply(o, ok) ==
  /\ o \in op /\ o.pc = "running"
  /\ op' = op \ {o}
  /\ applied' = IF ok THEN [applied EXCEPT ![o.session] = @ + 1] ELSE applied
  /\ UNCHANGED <<people, turn, session, ids, chats, events, approved, retried>>

-----------------------------------------------------------------------------
\* An administrator gives the user another role, a higher or a lower one.
UpdateRole(u, r) ==
  /\ role[u] # r /\ Happens
  /\ role' = [role EXCEPT ![u] = r]
  /\ UNCHANGED <<ready, turn, session, op, ids, chats, past>>

Configure ==
  /\ Happens /\ ready' = ~ready
  /\ UNCHANGED <<role, turn, session, op, ids, chats, past>>

\* The process dies: sessions and requests are gone, what it ran is
\* interrupted, the rows of the others stay.
Crash ==
  /\ Happens
  /\ turn' = [t \in Turns |-> NoTurn]
  /\ session' = {}
  /\ op' = {o \in op : o.pc # "running"}
  /\ UNCHANGED <<people, ids, chats, past>>

RunTurn(t) == Streamed(t) \/ CallTool(t) \/ CallsDone(t) \/ SaveSession(t)

Next ==
  \/ \E t \in Turns :
       \/ RunTurn(t)
       \/ \E u \in Users : Chat(t, u) \/ \E s \in session : Continue(s, u, t)
  \/ \E s \in session : SessionExpires(s) \/ \E u \in Users : Approve(s, u)
  \/ \E o \in op : Begin(o) \/ Retry(o) \/ \E ok \in BOOLEAN : Apply(o, ok)
  \/ \E u \in Users, r \in Roles : UpdateRole(u, r)
  \/ Configure \/ Crash

\* A provider's stream ends and a request's goroutine runs on.
Spec == Init /\ [][Next]_vars /\ \A t \in Turns : WF_vars(RunTurn(t))

-----------------------------------------------------------------------------
TypeOK ==
  /\ role \in [Users -> Roles]
  /\ \A s \in session : s.id \in Ids /\ s.user \in Users /\ s.change \in Changes
  /\ \A o \in op : o.session \in Ids /\ o.pc \in {"queued", "running", "failed"}
  /\ Cardinality(session) <= MaxPending
  /\ \A u \in Users : Cardinality({s \in session : s.user = u}) <= MaxPerUser

\* A change is approved by its own user only, and reaches the cluster at most
\* once for the approval and once more for every retry somebody asked for,
\* from however many tabs, and although a failed operation may be retried any
\* number of times (takeOwned; the operation manager runs a row at most once,
\* and offers to retry only what changed nothing).
AppliedAsApproved ==
  /\ \A a \in approved : a.by = a.owner
  /\ \A i \in Ids : applied[i] + Cardinality({o \in op : o.session = i /\ o.pc # "failed"})
                     <= Cardinality({a \in approved : a.session = i}) + retried[i]

\* package-releases.md:130: "AI changes require a new inspection before
\* another attempt": one approval changes the cluster once.  Two retries of
\* one failed operation refute it.
AppliedOncePerApproval == \A i \in Ids : applied[i] <= 1

\* What the model is sent is a legal conversation: every tool call it made
\* has its result, the refused, skipped and approved ones included.
EveryCallIsAnswered == \A t \in Turns : turn[t].pc = "stream" => turn[t].unanswered = 0

\* A change is refused a place only if as many unexpired ones wait: what
\* nobody approved does not keep users from the assistant.
RefusedOnlyWhenFull ==
  [][\A t \in Turns :
       (turn[t].pc = "tools" /\ turn[t].calls = <<>> /\ turn[t].pending # "none" /\ turn'[t] = NoTurn /\ ids' = ids) =>
         ~HasRoom({s \in session : ~s.expired}, turn[t].user) \/ events' # events]_vars

\* A turn ends, whatever the model answers.
EveryTurnEnds == \A t \in Turns : turn[t].pc # "none" ~> turn[t].pc = "none"
=============================================================================
