--------------------------------- MODULE Hub ---------------------------------
(***************************************************************************)
(* The hub that pushes resource events to browsers,                        *)
(* src/internal/handler/ws/hub.go: the event loop Run, and for each client *)
(* the handler that registers it, its readPump and its writePump.          *)
(* register and unregister are unbuffered, so a send on them is one step   *)
(* with the loop's receive.  An event is its number in the order of        *)
(* dispatch; which of them a client has subscribed to changes nothing      *)
(* here: the writer takes them all and writes some.                        *)
(***************************************************************************)
EXTENDS Naturals, Sequences

CONSTANTS
  Clients,
  BroadcastCap,  \* capacity of the hub's channel: 1024 in the code
  SendCap,       \* capacity of a client's channel: 256 in the code
  MaxEvents      \* bound: events

ASSUME ConstantsAssumption ==
  BroadcastCap \in Nat \ {0} /\ SendCap \in Nat \ {0} /\ MaxEvents \in Nat

VARIABLES
  loop,        \* Run: in its select, or returned
  stopCh,      \* whether Stop has closed the channel
  clients,     \* h.clients
  queued,      \* length of h.broadcast
  events,      \* calls of OnResourceEvent so far
  dispatched,  \* events taken from h.broadcast so far
  send,        \* each client's channel: the events in it
  chan,        \* whether it is open; closing it again is a panic
  handler,     \* HandleWatch of each client
  reader,      \* readPump
  writer,      \* writePump
  batch,       \* how many events the writer will still take into its message
  seen,        \* the last event the writer has taken, or the last before it joined
  closed,      \* clients whose connection this side has closed
  gone         \* clients that do not answer any more

vars == <<loop, stopCh, clients, queued, events, dispatched, send, chan, handler, reader, writer,
          batch, seen, closed, gone>>
hubVars  == <<loop, clients, dispatched>>
feedVars == <<stopCh, queued, events>>
pumpVars == <<handler, reader, writer, batch>>

-----------------------------------------------------------------------------
Pumps == {"none", "running", "leaving", "done"}

Init ==
  /\ loop = "select" /\ stopCh = FALSE
  /\ clients = {} /\ queued = 0 /\ events = 0 /\ dispatched = 0
  /\ send = [c \in Clients |-> <<>>]
  /\ chan = [c \in Clients |-> "none"]
  /\ handler = [c \in Clients |-> "none"]
  /\ reader = handler /\ writer = handler
  /\ batch = [c \in Clients |-> 0]
  /\ seen = batch
  /\ closed = {} /\ gone = {}

\* The channels after close(client.send) for the clients in C.
CloseSend(C) == [c \in Clients |-> IF c \notin C THEN chan[c]
                                   ELSE IF chan[c] = "open" THEN "closed" ELSE "panic"]

IsBroken(c) == c \in closed \cup gone

-----------------------------------------------------------------------------
(* The rest of the program.                                                *)

\* An informer's goroutine: dropped if the channel is full.
OnResourceEvent ==
  /\ events < MaxEvents /\ events' = events + 1
  /\ queued' = IF queued < BroadcastCap THEN queued + 1 ELSE queued
  /\ UNCHANGED <<hubVars, stopCh, send, chan, pumpVars, seen, closed, gone>>

Stop ==
  /\ ~stopCh /\ stopCh' = TRUE
  /\ UNCHANGED <<hubVars, queued, events, send, chan, pumpVars, seen, closed, gone>>

\* The browser closes, is lost, or answers no pings.
PeerLeaves(c) ==
  /\ handler[c] # "none" /\ c \notin gone
  /\ gone' = gone \cup {c}
  /\ UNCHANGED <<hubVars, feedVars, send, chan, pumpVars, seen, closed>>

\* HandleWatch: the upgrade.
Upgrade(c) ==
  /\ handler[c] = "none"
  /\ handler' = [handler EXCEPT ![c] = "registering"]
  /\ chan' = [chan EXCEPT ![c] = "open"]
  /\ UNCHANGED <<hubVars, feedVars, send, reader, writer, batch, seen, closed, gone>>

\* HandleWatch sees stopCh closed instead of registering.
Refuse(c) ==
  /\ handler[c] = "registering" /\ stopCh
  /\ handler' = [handler EXCEPT ![c] = "done"]
  /\ closed' = closed \cup {c}
  /\ UNCHANGED <<hubVars, feedVars, send, chan, reader, writer, batch, seen, gone>>

StartPumps(c) ==
  /\ handler[c] = "registered"
  /\ handler' = [handler EXCEPT ![c] = "done"]
  /\ reader' = [reader EXCEPT ![c] = "running"]
  /\ writer' = [writer EXCEPT ![c] = "running"]
  /\ UNCHANGED <<hubVars, feedVars, send, chan, batch, seen, closed, gone>>

-----------------------------------------------------------------------------
(* Run: one turn of the select.                                            *)

Shutdown ==
  /\ loop = "select" /\ stopCh
  /\ loop' = "returned"
  /\ chan' = CloseSend(clients)
  /\ closed' = closed \cup clients
  /\ clients' = {}
  /\ UNCHANGED <<feedVars, dispatched, send, pumpVars, seen, gone>>

Register(c) ==
  /\ loop = "select" /\ handler[c] = "registering"
  /\ clients' = clients \cup {c}
  /\ handler' = [handler EXCEPT ![c] = "registered"]
  /\ seen' = [seen EXCEPT ![c] = dispatched]
  /\ UNCHANGED <<loop, feedVars, dispatched, send, chan, reader, writer, batch, closed, gone>>

ToCloseAlways(c) == {c}  \* mutant: the client may have been removed as slow
ToClose(c) == clients \cap {c}

Unregister(c) ==
  /\ loop = "select" /\ reader[c] = "leaving"
  /\ clients' = clients \ {c}
  /\ chan' = CloseSend(ToClose(c))
  /\ reader' = [reader EXCEPT ![c] = "done"]
  /\ closed' = closed \cup {c}
  /\ UNCHANGED <<loop, feedVars, dispatched, send, handler, writer, batch, seen, gone>>

IsFullLate(c) == Len(send[c]) > SendCap  \* mutant: off by one
IsFull(c) == Len(send[c]) >= SendCap

SlowNever(c) == FALSE  \* mutant: the message is dropped and the client kept
IsSlow(c) == IsFull(c)

\* Sends that are not blocked do not depend on each other, so the loop over
\* the clients is one step.
Dispatch ==
  LET e    == dispatched + 1
      slow == {c \in clients : IsSlow(c)}
  IN
  /\ loop = "select" /\ queued > 0
  /\ queued' = queued - 1 /\ dispatched' = e
  /\ send' = [c \in Clients |-> IF c \in clients /\ ~IsFull(c) THEN Append(send[c], e) ELSE send[c]]
  /\ chan' = CloseSend(slow)
  /\ clients' = clients \ slow
  /\ UNCHANGED <<loop, stopCh, events, pumpVars, seen, closed, gone>>

-----------------------------------------------------------------------------
(* readPump.                                                               *)

ReadFails(c) ==
  /\ reader[c] = "running" /\ IsBroken(c)
  /\ reader' = [reader EXCEPT ![c] = "leaving"]
  /\ UNCHANGED <<hubVars, feedVars, send, chan, handler, writer, batch, seen, closed, gone>>

GivesUpNever == FALSE  \* mutant: only a send on unregister
GivesUp == stopCh

\* The deferred select sees stopCh closed instead of unregistering.
LeaveStopped(c) ==
  /\ reader[c] = "leaving" /\ GivesUp
  /\ reader' = [reader EXCEPT ![c] = "done"]
  /\ closed' = closed \cup {c}
  /\ UNCHANGED <<hubVars, feedVars, send, chan, handler, writer, batch, seen, gone>>

-----------------------------------------------------------------------------
(* writePump: take an event, then as many as are pending, then flush.      *)

BatchSizeOneMore(c) == Len(send[c])  \* mutant: i <= n in the loop over the pending
BatchSize(c) == Len(send[c]) - 1

Take(c) ==
  /\ seen' = [seen EXCEPT ![c] = Head(send[c])]
  /\ send' = [send EXCEPT ![c] = Tail(@)]

\* The deferred close of the connection, which ends the reader.
ClosedByWriter(c) == closed \cup {c}

\* An event the client has not subscribed to is taken and not written.
TakeFirst(c, subscribed) ==
  /\ writer[c] = "running" /\ send[c] # <<>>
  /\ Take(c)
  /\ writer' = [writer EXCEPT ![c] = IF subscribed THEN "batching" ELSE "running"]
  /\ batch' = [batch EXCEPT ![c] = IF subscribed THEN BatchSize(c) ELSE 0]
  /\ UNCHANGED <<hubVars, feedVars, chan, handler, reader, closed, gone>>

NextWriterFails(c) ==
  /\ writer[c] = "running" /\ send[c] # <<>> /\ IsBroken(c)
  /\ Take(c)
  /\ writer' = [writer EXCEPT ![c] = "done"]
  /\ closed' = ClosedByWriter(c)
  /\ UNCHANGED <<hubVars, feedVars, chan, handler, reader, batch, gone>>

TakePending(c) ==
  /\ writer[c] = "batching" /\ batch[c] > 0 /\ send[c] # <<>>
  /\ Take(c)
  /\ batch' = [batch EXCEPT ![c] = @ - 1]
  /\ UNCHANGED <<hubVars, feedVars, chan, handler, reader, writer, closed, gone>>

\* The peer takes the message, or the write fails, at the deadline at last.
Flush(c) ==
  /\ writer[c] = "batching" /\ batch[c] = 0
  /\ \/ ~IsBroken(c) /\ writer' = [writer EXCEPT ![c] = "running"] /\ UNCHANGED closed
     \/ writer' = [writer EXCEPT ![c] = "done"] /\ closed' = ClosedByWriter(c)
  /\ UNCHANGED <<hubVars, feedVars, send, chan, handler, reader, batch, seen, gone>>

\* The channel is closed and drained, or a ping cannot be sent.
WriterEnds(c) ==
  /\ writer[c] = "running"
  /\ (chan[c] # "open" /\ send[c] = <<>>) \/ IsBroken(c)
  /\ writer' = [writer EXCEPT ![c] = "done"]
  /\ closed' = ClosedByWriter(c)
  /\ UNCHANGED <<hubVars, feedVars, send, chan, handler, reader, batch, seen, gone>>

-----------------------------------------------------------------------------
Loop == Shutdown \/ Dispatch \/ \E c \in Clients : Register(c) \/ Unregister(c)

Write(c) ==
  \/ \E subscribed \in BOOLEAN : TakeFirst(c, subscribed)
  \/ NextWriterFails(c) \/ TakePending(c) \/ Flush(c) \/ WriterEnds(c)

\* Everything of the client is over.
IsOver(c) == /\ handler[c] = "done" /\ c \in closed
             /\ reader[c] \in {"none", "done"} /\ writer[c] \in {"none", "done"}

\* After Stop the program need not go on.
Ended == stopCh /\ UNCHANGED vars

Next ==
  \/ Ended \/ OnResourceEvent \/ Stop \/ Loop
  \/ \E c \in Clients : \/ PeerLeaves(c) \/ Upgrade(c) \/ Refuse(c) \/ StartPumps(c)
                        \/ ReadFails(c) \/ LeaveStopped(c) \/ Write(c)

Spec == Init /\ [][Next]_vars

\* Goroutines run, writes have a deadline and pings a period.  The select of
\* Run is fair to each case, so a closed stopCh and a waiting client are seen.
\* No peer has to read, to leave or to come, and nobody has to call Stop.
Fairness ==
  /\ WF_vars(Shutdown) /\ WF_vars(Dispatch)
  /\ \A c \in Clients : /\ WF_vars(Register(c)) /\ WF_vars(Unregister(c)) /\ WF_vars(Refuse(c))
                        /\ WF_vars(StartPumps(c)) /\ WF_vars(ReadFails(c)) /\ WF_vars(LeaveStopped(c))
                        /\ WF_vars(Write(c))

FairSpec == Spec /\ Fairness

-----------------------------------------------------------------------------
TypeOK ==
  /\ loop \in {"select", "returned"} /\ stopCh \in BOOLEAN
  /\ clients \in SUBSET Clients
  /\ queued \in 0..BroadcastCap /\ events \in 0..MaxEvents /\ dispatched \in 0..MaxEvents
  /\ send \in [Clients -> Seq(1..MaxEvents)]
  /\ \A c \in Clients : Len(send[c]) <= SendCap
  /\ chan \in [Clients -> {"none", "open", "closed", "panic"}]
  /\ handler \in [Clients -> {"none", "registering", "registered", "done"}]
  /\ reader \in [Clients -> Pumps]
  /\ writer \in [Clients -> (Pumps \ {"leaving"}) \cup {"batching"}]
  /\ batch \in [Clients -> 0..SendCap]
  /\ seen \in [Clients -> 0..MaxEvents]
  /\ closed \in SUBSET Clients /\ gone \in SUBSET Clients

\* No channel is closed twice, and the loop never sends on a closed one.
NoPanic == \A c \in Clients : chan[c] # "panic" /\ (c \in clients => chan[c] = "open")

\* A batch never receives from an empty channel: it would block until the
\* next event, or take nil from a channel that the hub has closed meanwhile.
BatchIsPending == \A c \in Clients : batch[c] <= Len(send[c])

\* A client that is kept has missed nothing that was dispatched since it
\* joined: what it has not taken yet is in its channel, in order.
NoGap ==
  \A c \in clients : /\ seen[c] + Len(send[c]) = dispatched
                     /\ \A i \in 1..Len(send[c]) : send[c][i] = seen[c] + i

\* Stop ends the loop, every pump and every handler, and leaves no
\* connection open, whoever was registering, writing or leaving.
StopEndsAll ==
  stopCh ~> /\ loop = "returned" /\ clients = {}
            /\ \A c \in Clients : handler[c] # "none" => IsOver(c)

\* A client that has left, or was dropped as slow, is forgotten: its
\* goroutines end and the hub does not hold it.
LeaversAreForgotten ==
  \A c \in Clients :
    (c \in gone \/ chan[c] = "closed") ~> (c \notin clients /\ IsOver(c))

\* What is dispatched to a client that stays is taken by its writer and
\* flushed: the writer never waits for a further event with a message open.
ClientsKeepUp ==
  \A c \in Clients : []<>(c \in clients => send[c] = <<>> /\ writer[c] # "batching")

=============================================================================
