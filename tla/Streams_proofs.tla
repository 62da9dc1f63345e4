--------------------------- MODULE Streams_proofs ---------------------------
(***************************************************************************)
(* Proofs about the three parts that MCStreams composes and about their    *)
(* composition, for any values of their constants.                         *)
(*                                                                         *)
(* The hub (Hub): it closes no channel twice and never sends on a closed   *)
(* one, its writers never wait inside a batch, and a client that is kept   *)
(* has missed no event.  The terminal (Shell, an instance of Terminal):    *)
(* the recording is what the browser was sent, and a session closes what   *)
(* it opened.  The log stream (Logs, an instance of LogStream): whoever    *)
(* waits, waits for somebody who goes on.                                  *)
(***************************************************************************)
EXTENDS MCStreams, SequenceTheorems, TLAPS

\* Every event is queued, dispatched or dropped.
EventsAreCounted == queued + dispatched <= events

\* A client is in h.clients from its registration until its channel is closed.
\* Until it is registered nothing is in its channel and no pump reads it.
Places ==
  \A c \in Clients :
    /\ c \in clients => chan[c] = "open" /\ handler[c] \in {"registered", "done"}
    /\ handler[c] = "none" => chan[c] = "none"
    /\ handler[c] = "registering" => chan[c] = "open"
    /\ handler[c] \in {"none", "registering"} => send[c] = <<>>
    /\ handler[c] # "done" => reader[c] = "none" /\ writer[c] = "none"

\* Only a writer in the middle of a message has events left to take.
BatchesAreWritten == \A c \in Clients : writer[c] # "batching" => batch[c] = 0

IInv ==
  /\ TypeOK /\ EventsAreCounted /\ Places /\ BatchesAreWritten
  /\ NoPanic /\ BatchIsPending /\ NoGap

-----------------------------------------------------------------------------
LEMMA InitOK == Init => IInv
<1> SUFFICES ASSUME Init PROVE IInv
  OBVIOUS
<1>1. <<>> \in Seq(1..MaxEvents) /\ Len(<<>>) = 0
  BY EmptySeq
<1>2. \A c \in Clients : /\ send[c] = <<>> /\ chan[c] = "none" /\ handler[c] = "none"
                          /\ reader[c] = "none" /\ writer[c] = "none" /\ batch[c] = 0
  BY DEF Init
<1>3. send \in [Clients -> Seq(1..MaxEvents)] /\ \A c \in Clients : Len(send[c]) <= SendCap
  BY <1>1, <1>2, ConstantsAssumption DEF Init
<1>4. TypeOK
  <2>1. reader \in [Clients -> Pumps] /\ writer \in [Clients -> (Pumps \ {"leaving"}) \cup {"batching"}]
    BY DEF Init, Pumps
  <2>2. batch \in [Clients -> 0..SendCap] /\ seen \in [Clients -> 0..MaxEvents]
    BY ConstantsAssumption DEF Init
  <2>3. queued \in 0..BroadcastCap /\ events \in 0..MaxEvents /\ dispatched \in 0..MaxEvents
    BY ConstantsAssumption DEF Init
  <2>4. /\ chan \in [Clients -> {"none", "open", "closed", "panic"}]
        /\ handler \in [Clients -> {"none", "registering", "registered", "done"}]
        /\ loop \in {"select", "returned"} /\ stopCh \in BOOLEAN
        /\ clients \in SUBSET Clients /\ closed \in SUBSET Clients /\ gone \in SUBSET Clients
    BY DEF Init
  <2>5. QED
    BY <1>3, <2>1, <2>2, <2>3, <2>4 DEF TypeOK
<1>5. EventsAreCounted /\ NoGap
  BY DEF Init, EventsAreCounted, NoGap
<1>6. Places /\ BatchesAreWritten /\ NoPanic
  BY <1>2 DEF Init, Places, BatchesAreWritten, NoPanic
<1>7. BatchIsPending
  <2>1. ASSUME NEW c \in Clients PROVE Len(send[c]) = 0 /\ batch[c] = 0
    <3>1. send[c] = <<>> /\ batch[c] = 0
      BY <1>2
    <3>2. QED
      BY <1>1, <3>1, Zenon
  <2>2. 0 <= 0
    OBVIOUS
  <2>3. QED
    BY <2>1, <2>2, Zenon DEF BatchIsPending
<1>8. QED
  BY <1>4, <1>5, <1>6, <1>7 DEF IInv

\* A step that touches neither the clients nor what is dispatched and taken
\* leaves no gap.
LEMMA NoGapStep ==
  ASSUME NoGap, UNCHANGED <<clients, dispatched, send, seen>>
  PROVE  NoGap'
BY DEF NoGap

\* Only members of h.clients have their channels closed, each once.
LEMMA ChannelsClose ==
  ASSUME TypeOK, Places, NoPanic, NEW C \in SUBSET clients, chan' = CloseSend(C)
  PROVE  /\ chan' \in [Clients -> {"none", "open", "closed", "panic"}]
         /\ \A c \in Clients : chan'[c] = IF c \in C THEN "closed" ELSE chan[c]
BY DEF TypeOK, Places, NoPanic, CloseSend

\* Closing the channels of clients that are removed in the same step.
LEMMA RemoveStep ==
  ASSUME IInv, NEW C \in SUBSET clients, clients' = clients \ C, chan' = CloseSend(C),
         UNCHANGED <<handler, writer, batch, dispatched, send, seen>>,
         \A c \in Clients : reader'[c] = reader[c] \/ handler[c] = "done"
  PROVE  /\ chan' \in [Clients -> {"none", "open", "closed", "panic"}] /\ clients' \in SUBSET Clients
         /\ Places' /\ NoPanic' /\ NoGap' /\ BatchIsPending' /\ BatchesAreWritten'
<1>1. /\ chan' \in [Clients -> {"none", "open", "closed", "panic"}]
      /\ \A c \in Clients : chan'[c] = IF c \in C THEN "closed" ELSE chan[c]
  BY ChannelsClose DEF IInv
<1>2. clients' \in SUBSET Clients
  BY DEF IInv, TypeOK
<1>3. Places'
  BY <1>1, <1>2 DEF IInv, TypeOK, Places
<1>4. NoPanic'
  BY <1>1, <1>2 DEF IInv, TypeOK, NoPanic
<1>5. NoGap' /\ BatchIsPending' /\ BatchesAreWritten'
  BY DEF IInv, NoGap, BatchIsPending, BatchesAreWritten
<1>6. QED
  BY <1>1, <1>2, <1>3, <1>4, <1>5

-----------------------------------------------------------------------------
(* The event loop.                                                         *)

LEMMA ShutdownOK ==
  ASSUME IInv, Shutdown
  PROVE  IInv'
<1>1. chan' = CloseSend(clients) /\ clients' = clients \ clients
  BY DEF Shutdown
<1>2. UNCHANGED <<stopCh, queued, events, dispatched, send, handler, reader, writer, batch, seen, gone>>
      /\ loop' = "returned" /\ closed' = closed \cup clients
  BY DEF Shutdown, feedVars, pumpVars
<1>3. /\ chan' \in [Clients -> {"none", "open", "closed", "panic"}] /\ clients' \in SUBSET Clients
      /\ Places' /\ NoPanic' /\ NoGap' /\ BatchIsPending' /\ BatchesAreWritten'
  BY <1>1, <1>2, RemoveStep
<1>4. TypeOK' /\ EventsAreCounted'
  BY <1>2, <1>3 DEF IInv, TypeOK, EventsAreCounted
<1>5. QED
  BY <1>3, <1>4 DEF IInv

LEMMA UnregisterOK ==
  ASSUME IInv, NEW c \in Clients, Unregister(c)
  PROVE  IInv'
<1> DEFINE C == clients \cap {c}
<1>1. chan' = CloseSend(C) /\ clients' = clients \ C
  BY DEF Unregister, ToClose
<1>2. UNCHANGED <<loop, stopCh, queued, events, dispatched, send, handler, writer, batch, seen, gone>>
      /\ reader' = [reader EXCEPT ![c] = "done"] /\ closed' = closed \cup {c} /\ reader[c] = "leaving"
  BY DEF Unregister, feedVars
<1>3. \A d \in Clients : reader'[d] = reader[d] \/ handler[d] = "done"
  BY <1>2 DEF IInv, TypeOK, Places
<1>4. /\ chan' \in [Clients -> {"none", "open", "closed", "panic"}] /\ clients' \in SUBSET Clients
      /\ Places' /\ NoPanic' /\ NoGap' /\ BatchIsPending' /\ BatchesAreWritten'
  BY <1>1, <1>2, <1>3, RemoveStep
<1>5. TypeOK' /\ EventsAreCounted'
  BY <1>2, <1>4 DEF IInv, TypeOK, EventsAreCounted, Pumps
<1>6. QED
  BY <1>4, <1>5 DEF IInv

\* A client joins with an empty channel, so it misses nothing from now on.
LEMMA RegisterOK ==
  ASSUME IInv, NEW c \in Clients, Register(c)
  PROVE  IInv'
<1>1. UNCHANGED <<loop, stopCh, queued, events, dispatched, send, chan, reader, writer, batch, closed, gone>>
      /\ handler[c] = "registering" /\ handler' = [handler EXCEPT ![c] = "registered"]
      /\ clients' = clients \cup {c} /\ seen' = [seen EXCEPT ![c] = dispatched]
  BY DEF Register, feedVars
<1>2. TypeOK' /\ EventsAreCounted' /\ BatchIsPending' /\ BatchesAreWritten'
  BY <1>1 DEF IInv, TypeOK, EventsAreCounted, BatchIsPending, BatchesAreWritten
<1>3. Places' /\ NoPanic'
  BY <1>1 DEF IInv, TypeOK, Places, NoPanic
<1>4. NoGap'
  <2>1. send[c] = <<>> /\ Len(<<>>) = 0
    BY <1>1, EmptySeq DEF IInv, Places
  <2>2. seen'[c] + Len(send'[c]) = dispatched' /\ \A i \in 1..Len(send'[c]) : send'[c][i] = seen'[c] + i
    BY <1>1, <2>1 DEF IInv, TypeOK
  <2>3. \A d \in clients : d # c => seen'[d] = seen[d] /\ send'[d] = send[d]
    BY <1>1 DEF IInv, TypeOK
  <2>4. QED
    BY <1>1, <2>2, <2>3 DEF IInv, NoGap
<1>5. QED
  BY <1>2, <1>3, <1>4 DEF IInv

\* The channel of a client that is kept, before and after it gets event e.
LEMMA SendFacts ==
  ASSUME IInv, Dispatch, NEW c \in Clients
  PROVE  /\ send'[c] \in Seq(1..MaxEvents) /\ Len(send'[c]) \in Nat
         /\ Len(send'[c]) <= SendCap /\ Len(send[c]) <= Len(send'[c])
         /\ send[c] = <<>> /\ c \notin clients => send'[c] = <<>>
         /\ c \in clients' => /\ c \in clients
                              /\ Len(send'[c]) = Len(send[c]) + 1
                              /\ send'[c][Len(send[c]) + 1] = dispatched + 1
                              /\ \A i \in 1..Len(send[c]) : send'[c][i] = send[c][i]
<1> DEFINE e == dispatched + 1
<1>1. send[c] \in Seq(1..MaxEvents) /\ Len(send[c]) \in Nat /\ Len(send[c]) <= SendCap
  BY LenProperties DEF IInv, TypeOK
<1>2. e \in 1..MaxEvents
  <2>1. queued \in Nat /\ dispatched \in Nat /\ events \in Nat /\ MaxEvents \in Nat /\ events <= MaxEvents
        /\ queued + dispatched <= events /\ queued > 0
    BY ConstantsAssumption DEF IInv, TypeOK, EventsAreCounted, Dispatch
  <2>2. QED
    BY <2>1
<1>3. send'[c] = IF c \in clients /\ ~IsFull(c) THEN Append(send[c], e) ELSE send[c]
  BY DEF Dispatch
<1>4. c \in clients' => c \in clients /\ ~IsFull(c)
  BY DEF Dispatch, IsSlow
<1>5. CASE c \in clients /\ ~IsFull(c)
  <2>1. send'[c] = Append(send[c], e)
    BY <1>3, <1>5
  <2>2. /\ Append(send[c], e) \in Seq(1..MaxEvents) /\ Len(Append(send[c], e)) = Len(send[c]) + 1
        /\ \A i \in 1..Len(send[c]) : Append(send[c], e)[i] = send[c][i]
        /\ Append(send[c], e)[Len(send[c]) + 1] = e
    BY <1>1, <1>2, AppendProperties
  <2>3. Len(send[c]) < SendCap
    BY <1>1, <1>5, ConstantsAssumption DEF IsFull
  <2>4. QED
    BY <1>1, <1>5, <2>1, <2>2, <2>3, ConstantsAssumption
<1>6. CASE ~(c \in clients /\ ~IsFull(c))
  BY <1>1, <1>3, <1>4, <1>6
<1>7. QED
  BY <1>5, <1>6

\* Clients whose channel is full are dropped, the others get the event.
LEMMA DispatchOK ==
  ASSUME IInv, Dispatch
  PROVE  IInv'
<1> DEFINE slow == {c \in clients : IsSlow(c)}
<1>1. /\ queued > 0 /\ queued' = queued - 1 /\ dispatched' = dispatched + 1
      /\ chan' = CloseSend(slow) /\ clients' = clients \ slow
      /\ send' = [c \in Clients |-> IF c \in clients /\ ~IsFull(c) THEN Append(send[c], dispatched + 1)
                                                                  ELSE send[c]]
      /\ UNCHANGED <<loop, stopCh, events, handler, reader, writer, batch, seen, closed, gone>>
  BY DEF Dispatch, pumpVars
<1>2. /\ chan' \in [Clients -> {"none", "open", "closed", "panic"}]
      /\ \A c \in Clients : chan'[c] = IF c \in slow THEN "closed" ELSE chan[c]
  BY <1>1, ChannelsClose DEF IInv
<1>3. clients' \in SUBSET Clients /\ clients' \subseteq clients
  BY <1>1 DEF IInv, TypeOK
<1>4. /\ queued \in Nat /\ dispatched \in Nat /\ events \in Nat /\ MaxEvents \in Nat /\ BroadcastCap \in Nat
      /\ events <= MaxEvents /\ queued + dispatched <= events /\ queued <= BroadcastCap
  BY ConstantsAssumption DEF IInv, TypeOK, EventsAreCounted
<1>5. queued' \in 0..BroadcastCap /\ dispatched' \in 0..MaxEvents /\ EventsAreCounted'
  BY <1>1, <1>4 DEF EventsAreCounted
<1>6. send' \in [Clients -> Seq(1..MaxEvents)] /\ \A c \in Clients : Len(send'[c]) <= SendCap
  BY <1>1, SendFacts
<1>7. TypeOK'
  BY <1>1, <1>2, <1>3, <1>5, <1>6 DEF IInv, TypeOK
<1>8. Places'
  <2> SUFFICES ASSUME NEW c \in Clients
               PROVE  /\ c \in clients' => chan'[c] = "open" /\ handler[c] \in {"registered", "done"}
                      /\ handler[c] = "none" => chan'[c] = "none"
                      /\ handler[c] = "registering" => chan'[c] = "open"
                      /\ handler[c] \in {"none", "registering"} => send'[c] = <<>>
                      /\ handler[c] # "done" => reader[c] = "none" /\ writer[c] = "none"
    BY <1>1 DEF Places
  <2>1. handler[c] \in {"none", "registering"} => send[c] = <<>> /\ c \notin clients
    BY DEF IInv, Places
  <2>2. handler[c] \in {"none", "registering"} => send'[c] = <<>>
    BY <2>1, SendFacts
  <2>3. QED
    BY <1>1, <1>2, <1>3, <2>1, <2>2 DEF IInv, Places
<1>9. NoPanic'
  BY <1>1, <1>2, <1>3 DEF IInv, NoPanic
<1>10. BatchIsPending' /\ BatchesAreWritten'
  <2>1. ASSUME NEW c \in Clients PROVE batch'[c] <= Len(send'[c])
    <3>1. batch[c] \in Nat /\ Len(send[c]) \in Nat /\ batch[c] <= Len(send[c])
      BY LenProperties DEF IInv, TypeOK, BatchIsPending
    <3>2. Len(send'[c]) \in Nat /\ Len(send[c]) <= Len(send'[c])
      BY SendFacts
    <3>3. QED
      BY <1>1, <3>1, <3>2
  <2>2. QED
    BY <1>1, <2>1 DEF IInv, BatchIsPending, BatchesAreWritten
<1>11. NoGap'
  <2> SUFFICES ASSUME NEW c \in clients'
               PROVE  /\ seen'[c] + Len(send'[c]) = dispatched'
                      /\ \A i \in 1..Len(send'[c]) : send'[c][i] = seen'[c] + i
    BY DEF NoGap
  <2>a. seen' = seen /\ dispatched' = dispatched + 1
    BY <1>1
  <2>1. c \in Clients /\ c \in clients
    BY <1>3
  <2>2. /\ Len(send'[c]) = Len(send[c]) + 1
        /\ send'[c][Len(send[c]) + 1] = dispatched + 1
        /\ \A i \in 1..Len(send[c]) : send'[c][i] = send[c][i]
    BY <2>1, SendFacts
  <2>3. /\ seen[c] \in Nat /\ Len(send[c]) \in Nat
        /\ seen[c] + Len(send[c]) = dispatched /\ \A i \in 1..Len(send[c]) : send[c][i] = seen[c] + i
    BY <2>1, LenProperties DEF IInv, TypeOK, NoGap
  <2>4. ASSUME NEW i \in 1..Len(send[c]) + 1 PROVE send'[c][i] = seen[c] + i
    <3>1. CASE i \in 1..Len(send[c])
      BY <2>2, <2>3, <3>1
    <3>2. CASE i = Len(send[c]) + 1
      <4>1. send'[c][i] = dispatched + 1
        BY <2>2, <3>2
      <4>2. seen[c] \in Nat /\ Len(send[c]) \in Nat /\ seen[c] + Len(send[c]) = dispatched
        BY <2>3
      <4>3. seen[c] + i = dispatched + 1
        BY <3>2, <4>2
      <4>4. QED
        BY <4>1, <4>3
    <3>3. QED
      BY <2>3, <3>1, <3>2
  <2>5. seen[c] + Len(send'[c]) = dispatched + 1
    BY <2>2, <2>3
  <2>6. ASSUME NEW i \in 1..Len(send'[c]) PROVE send'[c][i] = seen[c] + i
    <3>1. i \in 1..Len(send[c]) + 1
      BY <2>2
    <3>2. QED
      BY <2>4, <3>1
  <2>7. QED
    BY <2>a, <2>5, <2>6
<1>12. QED
  BY <1>5, <1>7, <1>8, <1>9, <1>10, <1>11 DEF IInv

-----------------------------------------------------------------------------
(* The handlers, the readers and the rest of the program.                  *)

LEMMA OutsideOK ==
  ASSUME IInv, Ended \/ OnResourceEvent \/ Stop \/ \E c \in Clients : PeerLeaves(c)
  PROVE  IInv'
<1>1. UNCHANGED <<loop, clients, dispatched, send, chan, handler, reader, writer, batch, seen, closed>>
  BY DEF Ended, OnResourceEvent, Stop, PeerLeaves, vars, hubVars, feedVars, pumpVars
<1>2. /\ stopCh' \in BOOLEAN /\ gone' \in SUBSET Clients
      /\ queued' \in 0..BroadcastCap /\ events' \in 0..MaxEvents /\ EventsAreCounted'
  <2>1. /\ queued \in 0..BroadcastCap /\ dispatched \in Nat /\ events \in 0..MaxEvents
        /\ MaxEvents \in Nat /\ BroadcastCap \in Nat /\ queued + dispatched <= events
    BY ConstantsAssumption DEF IInv, TypeOK, EventsAreCounted
  <2>2. CASE OnResourceEvent
    BY <1>1, <2>1, <2>2 DEF OnResourceEvent, EventsAreCounted, IInv, TypeOK
  <2>3. CASE UNCHANGED <<queued, events>>
    <3>1. stopCh' \in BOOLEAN /\ gone' \in SUBSET Clients
      BY DEF Ended, OnResourceEvent, Stop, PeerLeaves, IInv, TypeOK, vars, feedVars
    <3>2. QED
      BY <1>1, <2>1, <2>3, <3>1 DEF EventsAreCounted
  <2>4. QED
    BY <2>2, <2>3 DEF Ended, Stop, PeerLeaves, vars, feedVars
<1>3. TypeOK'
  BY <1>1, <1>2 DEF IInv, TypeOK
<1>4. Places' /\ NoPanic' /\ BatchIsPending' /\ BatchesAreWritten' /\ NoGap'
  BY <1>1 DEF IInv, Places, NoPanic, BatchIsPending, BatchesAreWritten, NoGap
<1>5. QED
  BY <1>2, <1>3, <1>4 DEF IInv

LEMMA HandlerOK ==
  ASSUME IInv, NEW c \in Clients,
         Upgrade(c) \/ Refuse(c) \/ StartPumps(c) \/ ReadFails(c) \/ LeaveStopped(c)
  PROVE  IInv'
<1>1. UNCHANGED <<loop, stopCh, clients, queued, events, dispatched, send, batch, seen, gone>>
  BY DEF Upgrade, Refuse, StartPumps, ReadFails, LeaveStopped, hubVars, feedVars
<1>2. EventsAreCounted' /\ BatchIsPending' /\ NoGap'
  BY <1>1 DEF IInv, EventsAreCounted, BatchIsPending, NoGap
<1>3. TypeOK' /\ Places' /\ NoPanic' /\ BatchesAreWritten'
  <2>1. CASE Upgrade(c)
    BY <1>1, <2>1 DEF Upgrade, IInv, TypeOK, Places, NoPanic, BatchesAreWritten
  <2>2. CASE Refuse(c)
    BY <1>1, <2>2 DEF Refuse, IInv, TypeOK, Places, NoPanic, BatchesAreWritten
  <2>3. CASE StartPumps(c)
    <3>1. TypeOK'
      BY <1>1, <2>3 DEF StartPumps, IInv, TypeOK, Pumps
    <3>2. Places' /\ NoPanic'
      BY <1>1, <2>3 DEF StartPumps, IInv, TypeOK, Places, NoPanic
    <3>3. BatchesAreWritten'
      BY <1>1, <2>3 DEF StartPumps, IInv, TypeOK, Places, BatchesAreWritten
    <3>4. QED
      BY <3>1, <3>2, <3>3
  <2>4. CASE ReadFails(c)
    <3>1. TypeOK'
      BY <1>1, <2>4 DEF ReadFails, IInv, TypeOK, Pumps
    <3>2. Places' /\ NoPanic'
      BY <1>1, <2>4 DEF ReadFails, IInv, TypeOK, Places, NoPanic
    <3>3. BatchesAreWritten'
      BY <1>1, <2>4 DEF ReadFails, IInv, TypeOK, BatchesAreWritten
    <3>4. QED
      BY <3>1, <3>2, <3>3
  <2>5. CASE LeaveStopped(c)
    BY <1>1, <2>5 DEF LeaveStopped, IInv, TypeOK, Pumps, Places, NoPanic, BatchesAreWritten
  <2>6. QED
    BY <2>1, <2>2, <2>3, <2>4, <2>5
<1>4. QED
  BY <1>2, <1>3 DEF IInv

-----------------------------------------------------------------------------
(* The writers.                                                            *)

\* A writer takes the next event in order.
LEMMA TakeFacts ==
  ASSUME IInv, NEW c \in Clients, send[c] # <<>>, Take(c), UNCHANGED <<clients, dispatched>>
  PROVE  /\ send' \in [Clients -> Seq(1..MaxEvents)] /\ seen' \in [Clients -> 0..MaxEvents]
         /\ \A d \in Clients : Len(send'[d]) <= SendCap /\ (d # c => send'[d] = send[d])
         /\ Len(send[c]) \in Nat \ {0} /\ Len(send'[c]) = Len(send[c]) - 1
         /\ NoGap'
<1>1. /\ send[c] \in Seq(1..MaxEvents) /\ Len(send[c]) \in Nat \ {0} /\ Len(send[c]) <= SendCap
      /\ Head(send[c]) \in 1..MaxEvents
  BY EmptySeq, HeadTailProperties DEF IInv, TypeOK
<1>2. send'[c] = Tail(send[c]) /\ seen'[c] = Head(send[c])
      /\ \A d \in Clients : d # c => send'[d] = send[d] /\ seen'[d] = seen[d]
  BY DEF Take, IInv, TypeOK
<1>3. /\ Head(send[c]) = send[c][1]
      /\ Tail(send[c]) \in Seq(1..MaxEvents)
      /\ Len(Tail(send[c])) = Len(send[c]) - 1
      /\ \A i \in 1..Len(Tail(send[c])) : Tail(send[c])[i] = send[c][i + 1]
  <2>1. Head(send[c]) = send[c][1]
    BY <1>1
  <2>2. QED
    BY <1>1, <2>1, HeadTailProperties
<1>4. send' \in [Clients -> Seq(1..MaxEvents)] /\ seen' \in [Clients -> 0..MaxEvents]
  BY <1>1, <1>3 DEF Take, IInv, TypeOK
<1>5. \A d \in Clients : Len(send'[d]) <= SendCap
  <2>1. Len(Tail(send[c])) <= SendCap
    BY <1>1, <1>3, ConstantsAssumption
  <2>2. QED
    BY <1>2, <2>1 DEF IInv, TypeOK
<1>6. NoGap'
  <2> SUFFICES ASSUME NEW d \in clients
               PROVE  /\ seen'[d] + Len(send'[d]) = dispatched
                      /\ \A i \in 1..Len(send'[d]) : send'[d][i] = seen'[d] + i
    BY DEF NoGap
  <2>1. /\ d \in Clients /\ seen[d] \in Nat /\ seen[d] + Len(send[d]) = dispatched
        /\ \A i \in 1..Len(send[d]) : send[d][i] = seen[d] + i
    BY DEF IInv, TypeOK, NoGap
  <2>2. CASE d # c
    BY <1>2, <2>1, <2>2
  <2>3. CASE d = c
    <3>1. seen'[c] = seen[c] + 1
      BY <1>1, <1>2, <1>3, <2>1, <2>3
    <3>2. seen'[c] + Len(send'[c]) = dispatched
      BY <1>1, <1>2, <1>3, <2>1, <2>3, <3>1
    <3>3. ASSUME NEW i \in 1..Len(send'[c]) PROVE send'[c][i] = seen'[c] + i
      <4>1. i + 1 \in 1..Len(send[c]) /\ send'[c][i] = send[c][i + 1]
        BY <1>1, <1>2, <1>3
      <4>2. send[c][i + 1] = seen[c] + (i + 1)
        BY <2>1, <2>3, <4>1, Zenon
      <4>3. seen[c] \in Nat /\ i \in Nat
        BY <1>1, <1>2, <1>3, <2>1, <2>3
      <4>4. seen[c] + (i + 1) = (seen[c] + 1) + i
        BY <4>3
      <4>5. QED
        BY <3>1, <4>1, <4>2, <4>4, Zenon
    <3>4. QED
      BY <2>3, <3>2, <3>3
  <2>4. QED
    BY <2>2, <2>3
<1>7. QED
  BY <1>1, <1>2, <1>3, <1>4, <1>5, <1>6

LEMMA TakeOK ==
  ASSUME IInv, NEW c \in Clients,
         NextWriterFails(c) \/ TakePending(c) \/ \E subscribed \in BOOLEAN : TakeFirst(c, subscribed)
  PROVE  IInv'
<1>1. UNCHANGED <<loop, clients, dispatched, stopCh, queued, events, chan, handler, reader, gone>>
  BY DEF NextWriterFails, TakePending, TakeFirst, hubVars, feedVars
<1>2. send[c] # <<>> /\ Take(c)
  BY DEF NextWriterFails, TakePending, TakeFirst
<1>3. /\ send' \in [Clients -> Seq(1..MaxEvents)] /\ seen' \in [Clients -> 0..MaxEvents]
      /\ \A d \in Clients : Len(send'[d]) <= SendCap /\ (d # c => send'[d] = send[d])
      /\ Len(send[c]) \in Nat \ {0} /\ Len(send'[c]) = Len(send[c]) - 1
      /\ NoGap'
  BY <1>1, <1>2, TakeFacts
<1>a. Len(send'[c]) \in Nat /\ Len(send[c]) \in Nat \ {0} /\ Len(send'[c]) = Len(send[c]) - 1
  <2>1. Len(send'[c]) \in Nat
    BY <1>3, LenProperties
  <2>2. QED
    BY <1>3, <2>1
<1>4. /\ batch[c] \in Nat /\ batch[c] <= SendCap /\ batch[c] <= Len(send[c]) /\ Len(send[c]) <= SendCap
      /\ SendCap \in Nat
      /\ writer[c] # "batching" => batch[c] = 0
  BY ConstantsAssumption DEF IInv, TypeOK, BatchIsPending, BatchesAreWritten
<1>5. /\ writer[c] \in {"running", "batching"}
      /\ writer'[c] \in {"running", "batching", "done"}
      /\ \A d \in Clients : d # c => writer'[d] = writer[d] /\ batch'[d] = batch[d]
      /\ writer' \in [Clients -> (Pumps \ {"leaving"}) \cup {"batching"}]
      /\ closed' \in SUBSET Clients
  BY DEF NextWriterFails, TakePending, TakeFirst, ClosedByWriter, IInv, TypeOK, Pumps
<1>6. batch' \in [Clients -> 0..SendCap] /\ batch'[c] <= Len(send'[c]) /\ (writer'[c] # "batching" => batch'[c] = 0)
  <2>1. CASE NextWriterFails(c)
    <3>1. UNCHANGED batch /\ writer[c] = "running" /\ 0 <= Len(send'[c])
      BY <1>a, <2>1 DEF NextWriterFails
    <3>2. batch[c] = 0 /\ batch \in [Clients -> 0..SendCap]
      BY <1>4, <3>1 DEF IInv, TypeOK
    <3>3. QED
      BY <3>1, <3>2
  <2>2. CASE TakePending(c)
    <3>1. batch[c] > 0 /\ batch' = [batch EXCEPT ![c] = @ - 1] /\ writer' = writer /\ writer[c] = "batching"
      BY <2>2 DEF TakePending
    <3>2. batch[c] - 1 \in 0..SendCap /\ batch[c] - 1 <= Len(send'[c])
      BY <1>a, <1>4, <3>1
    <3>3. batch \in [Clients -> 0..SendCap]
      BY DEF IInv, TypeOK
    <3>4. batch'[c] = batch[c] - 1
      BY <3>1, <3>3
    <3>5. QED
      BY <3>1, <3>2, <3>3, <3>4
  <2>3. ASSUME NEW subscribed \in BOOLEAN, TakeFirst(c, subscribed)
        PROVE  /\ batch' \in [Clients -> 0..SendCap] /\ batch'[c] <= Len(send'[c])
               /\ writer'[c] # "batching" => batch'[c] = 0
    <3>1. /\ batch' = [batch EXCEPT ![c] = IF subscribed THEN BatchSize(c) ELSE 0]
          /\ writer' = [writer EXCEPT ![c] = IF subscribed THEN "batching" ELSE "running"]
      BY <2>3 DEF TakeFirst
    <3>2. /\ BatchSize(c) \in 0..SendCap /\ BatchSize(c) <= Len(send'[c])
          /\ 0 \in 0..SendCap /\ 0 <= Len(send'[c])
      <4>1. BatchSize(c) = Len(send[c]) - 1
        BY DEF BatchSize
      <4> HIDE DEF BatchSize
      <4>2. QED
        BY <1>a, <1>4, <4>1
    <3>3. CASE subscribed
      <4>1. batch' = [batch EXCEPT ![c] = BatchSize(c)] /\ writer' = [writer EXCEPT ![c] = "batching"]
        BY <3>1, <3>3
      <4>2. QED
        BY <3>2, <4>1 DEF IInv, TypeOK
    <3>4. CASE ~subscribed
      <4>1. batch' = [batch EXCEPT ![c] = 0] /\ writer' = [writer EXCEPT ![c] = "running"]
        BY <3>1, <3>4
      <4>2. QED
        BY <3>2, <4>1 DEF IInv, TypeOK
    <3>5. QED
      BY <3>3, <3>4
  <2>4. QED
    BY <2>1, <2>2, <2>3
<1>7. TypeOK' /\ EventsAreCounted'
  <2>1. EventsAreCounted'
    BY <1>1 DEF IInv, EventsAreCounted
  <2>2. QED
    BY <1>1, <1>3, <1>5, <1>6, <2>1 DEF IInv, TypeOK
<1>8. BatchIsPending' /\ BatchesAreWritten'
  BY <1>3, <1>5, <1>6 DEF IInv, BatchIsPending, BatchesAreWritten
<1>9. Places' /\ NoPanic'
  <2>1. handler[c] = "done"
    BY <1>5 DEF IInv, TypeOK, Places
  <2>2. QED
    BY <1>1, <1>3, <1>5, <2>1 DEF IInv, Places, NoPanic
<1>10. QED
  BY <1>3, <1>7, <1>8, <1>9 DEF IInv

LEMMA WriterOK ==
  ASSUME IInv, NEW c \in Clients, Flush(c) \/ WriterEnds(c)
  PROVE  IInv'
<1>1. UNCHANGED <<loop, clients, dispatched, stopCh, queued, events, send, chan, handler, reader, batch, seen, gone>>
  BY DEF Flush, WriterEnds, hubVars, feedVars
<1>2. /\ writer[c] \in {"running", "batching"} /\ batch[c] = 0
      /\ writer' \in [Clients -> (Pumps \ {"leaving"}) \cup {"batching"}]
      /\ \A d \in Clients : d # c => writer'[d] = writer[d]
      /\ closed' \in SUBSET Clients
  BY DEF Flush, WriterEnds, ClosedByWriter, IInv, TypeOK, Pumps, BatchesAreWritten
<1>3. handler[c] = "done"
  BY <1>2 DEF IInv, TypeOK, Places
<1>4. TypeOK' /\ EventsAreCounted'
  BY <1>1, <1>2 DEF IInv, TypeOK, EventsAreCounted
<1>5. Places' /\ NoPanic'
  BY <1>1, <1>2, <1>3 DEF IInv, Places, NoPanic
<1>6. BatchIsPending' /\ BatchesAreWritten' /\ NoGap'
  BY <1>1, <1>2 DEF IInv, BatchIsPending, BatchesAreWritten, NoGap
<1>7. QED
  BY <1>4, <1>5, <1>6 DEF IInv

-----------------------------------------------------------------------------
LEMMA NextOK == IInv /\ [Next]_vars => IInv'
<1> SUFFICES ASSUME IInv, [Next]_vars PROVE IInv'
  OBVIOUS
<1>1. CASE UNCHANGED vars
  BY <1>1 DEF vars, IInv, TypeOK, EventsAreCounted, Places, BatchesAreWritten, NoPanic, BatchIsPending, NoGap
<1>2. CASE Loop
  BY <1>2, ShutdownOK, DispatchOK, RegisterOK, UnregisterOK DEF Loop
<1>3. CASE Ended \/ OnResourceEvent \/ Stop
  BY <1>3, OutsideOK
<1>4. ASSUME NEW c \in Clients, PeerLeaves(c) PROVE IInv'
  BY <1>4, OutsideOK
<1>5. ASSUME NEW c \in Clients,
             Upgrade(c) \/ Refuse(c) \/ StartPumps(c) \/ ReadFails(c) \/ LeaveStopped(c)
      PROVE  IInv'
  BY <1>5, HandlerOK
<1>6. ASSUME NEW c \in Clients, Write(c) PROVE IInv'
  BY <1>6, TakeOK, WriterOK DEF Write
<1>7. QED
  BY <1>1, <1>2, <1>3, <1>4, <1>5, <1>6 DEF Next

\* The inductive invariant.
THEOREM Invariance == Spec => []IInv
<1>1. IInv /\ [Next]_vars => IInv'
  BY NextOK
<1>2. QED
  BY <1>1, InitOK, PTL DEF Spec

\* Every variable stays in its type: no channel ever holds more than its
\* capacity, the hub's and the clients'.
THEOREM TypeCorrect == Spec => []TypeOK
<1>1. IInv => TypeOK
  BY DEF IInv
<1>2. QED
  BY <1>1, Invariance, PTL

\* Whoever is first to drop a client, the loop that finds it slow, its reader
\* that leaves or Stop: its channel is closed once, and never sent on after.
THEOREM ClosedOnce == Spec => []NoPanic
<1>1. IInv => NoPanic
  BY DEF IInv
<1>2. QED
  BY <1>1, Invariance, PTL

\* The events a writer still wants for its message are in the channel already.
THEOREM WriterNeverWaits == Spec => []BatchIsPending
<1>1. IInv => BatchIsPending
  BY DEF IInv
<1>2. QED
  BY <1>1, Invariance, PTL

\* A client in h.clients has taken, or has in its channel, every event that
\* was dispatched since it joined, in the order of dispatch.
THEOREM NothingMissed == Spec => []NoGap
<1>1. IInv => NoGap
  BY DEF IInv
<1>2. QED
  BY <1>1, Invariance, PTL

-----------------------------------------------------------------------------
(***************************************************************************)
(* The terminal.                                                           *)
(***************************************************************************)

\* A chunk is recorded right after it was delivered: one at most is on its way.
RecordFollows == sent = recorded + (IF copier = "recording" THEN 1 ELSE 0)

\* HandleExec from Exec's return to the end of the session's context.
Ending == {"sending", "save", "closeStdin", "closeQueue", "cancel"}

\* Exec returned for the shell's sake, as long as nothing cancelled the session:
\* then no output is left to copy.
NothingToCopy == exec \in Ending /\ ~cancelled => Shell!StreamEnded

\* The recording is saved once, before the context is cancelled.
SavedInPlace ==
  /\ exec \in {"request", "probe", "exec", "sending", "save"} => saved = Shell!NotSaved
  /\ saved # Shell!NotSaved /\ ~cancelled => exec \in Ending

ShellTypes ==
  /\ copier \in {"idle", "writing", "recording", "ended"} /\ shell \in {"none", "running", "exited"}
  /\ exec \in {"request", "probe", "exec"} \cup Shell!AfterExec
  /\ produced \in Nat /\ sent \in Nat /\ recorded \in Nat /\ saved \in Nat

ShellInv == ShellTypes /\ RecordFollows /\ NothingToCopy /\ SavedInPlace /\ RecordingIsWhatWasSent

LEMMA ShellStart == Shell!Init => ShellInv
BY TerminalAssumption
   DEF Shell!TerminalAssumption, Shell!Init, ShellInv, ShellTypes, RecordFollows, NothingToCopy, SavedInPlace,
       RecordingIsWhatWasSent, Shell!RecordingIsWhatWasSent, Shell!NotSaved, Ending, Shell!AfterExec

\* Exec returns: the session was cancelled, or its output is copied.
LEMMA ReturnShellInv ==
  ASSUME ShellInv, Shell!Refuse \/ Shell!Upgrade \/ Shell!NoShell \/ Shell!StartExec
                   \/ Shell!ExecReturns \/ Shell!CloseSent
  PROVE  ShellInv'
<1> USE DEF ShellInv, Shell!output, Shell!channels, Shell!outside
<1>1. UNCHANGED <<copier, produced, sent, recorded, saved, cancelled>> /\ saved = Shell!NotSaved
  BY DEF Shell!Refuse, Shell!Upgrade, Shell!NoShell, Shell!StartExec, Shell!ExecReturns, Shell!CloseSent,
         SavedInPlace
<1>2. ShellTypes' /\ RecordFollows' /\ SavedInPlace' /\ RecordingIsWhatWasSent'
  <2>1. exec' \in {"request", "probe", "exec"} \cup Shell!AfterExec /\ shell' \in {"none", "running", "exited"}
    BY DEF Shell!Refuse, Shell!Upgrade, Shell!NoShell, Shell!StartExec, Shell!ExecReturns, Shell!CloseSent,
           Shell!AfterExec, ShellTypes
  <2>2. QED
    BY <1>1, <2>1 DEF ShellTypes, RecordFollows, SavedInPlace, RecordingIsWhatWasSent,
                      Shell!RecordingIsWhatWasSent, Shell!NotSaved
<1>3. NothingToCopy'
  BY <1>1 DEF Shell!Refuse, Shell!Upgrade, Shell!NoShell, Shell!StartExec, Shell!ExecReturns,
              Shell!CloseSent, NothingToCopy, Shell!StreamEnded, Ending
<1>4. QED
  BY <1>2, <1>3

\* What is saved is what was recorded, and no chunk is on its way.
LEMMA SaveShellInv ==
  ASSUME ShellInv, Shell!SaveRecording
  PROVE  ShellInv'
<1>1. /\ exec = "save" /\ exec' = "closeStdin" /\ saved' = recorded
      /\ UNCHANGED <<copier, produced, sent, recorded, cancelled, shell>>
  BY DEF Shell!SaveRecording, Shell!output, Shell!outside
<1>2. recorded <= sent /\ (~cancelled => recorded = sent)
  BY <1>1 DEF ShellInv, ShellTypes, RecordFollows, NothingToCopy, Ending, Shell!StreamEnded
<1>3. QED
  BY <1>1, <1>2 DEF ShellInv, ShellTypes, RecordFollows, NothingToCopy, SavedInPlace, RecordingIsWhatWasSent,
                    Shell!RecordingIsWhatWasSent, Shell!StreamEnded, Ending, Shell!AfterExec

\* The deferred calls: after the third one the session is cancelled.
LEMMA DeferredShellInv ==
  ASSUME ShellInv, Shell!Deferred
  PROVE  ShellInv'
<1>1. /\ UNCHANGED <<copier, produced, sent, recorded, saved, shell>>
      /\ \/ exec = "closeStdin" /\ exec' = "closeQueue" /\ cancelled' = cancelled
         \/ exec = "closeQueue" /\ exec' = "cancel" /\ cancelled' = cancelled
         \/ exec = "cancel" /\ exec' = "closeConn" /\ cancelled'
         \/ exec = "closeConn" /\ exec' = "done" /\ cancelled' = cancelled
  BY DEF Shell!Deferred, Shell!output, Shell!outside
<1>2. QED
  BY <1>1 DEF ShellInv, ShellTypes, RecordFollows, NothingToCopy, SavedInPlace, RecordingIsWhatWasSent,
              Shell!RecordingIsWhatWasSent, Shell!NotSaved, Shell!StreamEnded, Ending, Shell!AfterExec

\* readLoop and the browser touch no output; at most they cancel the session.
LEMMA ReaderShellInv ==
  ASSUME ShellInv, Shell!ReaderStep \/ Shell!ReadError \/ Shell!BrowserLeaves
  PROVE  ShellInv'
<1>1. UNCHANGED <<exec, saved, copier, produced, sent, recorded, shell>> /\ (cancelled => cancelled')
  BY DEF Shell!ReaderStep, Shell!ReadError, Shell!BrowserLeaves, Shell!Check, Shell!ReadFails, Shell!Input,
         Shell!InputTaken, Shell!Resize, Shell!Leave, Shell!output, Shell!outside
<1>2. QED
  BY <1>1 DEF ShellInv, ShellTypes, RecordFollows, NothingToCopy, SavedInPlace, RecordingIsWhatWasSent,
              Shell!RecordingIsWhatWasSent, Shell!NotSaved, Shell!StreamEnded

\* The copy of the output: a chunk is delivered, then recorded.
LEMMA CopierShellInv ==
  ASSUME ShellInv, Shell!CopierStep
  PROVE  ShellInv'
<1>1. UNCHANGED <<exec, cancelled, saved, shell, produced>>
  BY DEF Shell!CopierStep, Shell!BeginWrite, Shell!WriteEnds, Shell!WriteRecord, Shell!TornDown, Shell!outside
<1>2. ShellTypes' /\ RecordFollows' /\ sent <= sent'
  BY <1>1 DEF ShellInv, ShellTypes, RecordFollows, Shell!CopierStep, Shell!BeginWrite, Shell!WriteEnds,
              Shell!Delivered, Shell!Failed, Shell!WriteRecord, Shell!TornDown
<1>3. ASSUME exec \in Ending, ~cancelled
      PROVE  Shell!StreamEnded' /\ sent' = sent
  BY <1>1, <1>3 DEF ShellInv, ShellTypes, NothingToCopy, Shell!StreamEnded, Shell!CopierStep, Shell!BeginWrite,
                    Shell!StreamOpen, Shell!WriteEnds, Shell!WriteRecord, Shell!TornDown
<1>4. NothingToCopy' /\ SavedInPlace'
  BY <1>1, <1>3 DEF ShellInv, NothingToCopy, SavedInPlace, Shell!NotSaved
<1>5. RecordingIsWhatWasSent'
  BY <1>1, <1>2, <1>3 DEF ShellInv, ShellTypes, SavedInPlace, RecordingIsWhatWasSent,
                          Shell!RecordingIsWhatWasSent, Shell!NotSaved
<1>6. QED
  BY <1>2, <1>4, <1>5 DEF ShellInv

\* The shell writes and exits only while it runs.
LEMMA OutputShellInv ==
  ASSUME ShellInv, Shell!ShellWrites \/ Shell!ShellExits
  PROVE  ShellInv'
<1>1. /\ UNCHANGED <<exec, saved, copier, sent, recorded, cancelled>>
      /\ shell = "running" /\ shell' \in {"running", "exited"} /\ produced' \in Nat
  BY DEF ShellInv, ShellTypes, Shell!ShellWrites, Shell!ShellExits, Shell!output, Shell!outside
<1>2. ~(exec \in Ending /\ ~cancelled)
  BY <1>1 DEF ShellInv, NothingToCopy, Shell!StreamEnded
<1>3. QED
  BY <1>1, <1>2 DEF ShellInv, ShellTypes, RecordFollows, NothingToCopy, SavedInPlace, RecordingIsWhatWasSent,
                    Shell!RecordingIsWhatWasSent, Shell!NotSaved

LEMMA ShellStep == ShellInv /\ [Shell!Next]_(Shell!vars) => ShellInv'
<1> SUFFICES ASSUME ShellInv, [Shell!Next]_(Shell!vars) PROVE ShellInv'
  OBVIOUS
<1>1. CASE Shell!HandlerStep \/ Shell!Refuse \/ Shell!Upgrade
  BY <1>1, ReturnShellInv, SaveShellInv, DeferredShellInv DEF Shell!HandlerStep
<1>2. CASE UNCHANGED Shell!vars
  BY <1>2 DEF Shell!vars, ShellInv, ShellTypes, RecordFollows, NothingToCopy, SavedInPlace,
              RecordingIsWhatWasSent, Shell!RecordingIsWhatWasSent, Shell!NotSaved, Shell!StreamEnded
<1>3. QED
  BY <1>1, <1>2, ReaderShellInv, CopierShellInv, OutputShellInv DEF Shell!Next

\* A saved recording holds nothing the browser was not sent, and, until the
\* session is cancelled, everything it was (terminal.go: Exec returns after its
\* output is copied, or because the context is done; recWriter records a chunk
\* once it is written).
THEOREM RecordingIsTrue == Shell!Spec => []RecordingIsWhatWasSent
<1>1. ShellInv => RecordingIsWhatWasSent
  BY DEF ShellInv
<1>2. QED
  BY <1>1, ShellStart, ShellStep, PTL DEF Shell!Spec

-----------------------------------------------------------------------------
(* What a terminal session opens, it closes.                               *)

\* A chunk is recorded after it was delivered, and delivered after it was
\* written by the shell.
ChunksInOrder ==
  /\ recorded <= sent /\ sent <= produced
  /\ (copier = "writing" => sent < produced) /\ (copier = "recording" => recorded < sent)

\* readLoop runs once the exec session does; what the handler has deferred up
\* to where it is has been called.
SessionIsClosed ==
  /\ exec \in {"request", "probe"} => readLoop = "off"
  /\ exec \in {"exec"} \cup Ending => readLoop # "off"
  /\ readLoop # "off" =>
       /\ exec \in {"closeQueue", "cancel", "closeConn", "done"} => ~stdin
       /\ exec \in {"cancel", "closeConn", "done"} => ~queue
       /\ exec \in {"closeConn", "done"} => cancelled
       /\ exec = "done" => ~conn
  /\ readLoop = "done" => cancelled /\ ~stdin

\* readLoop sends on the closed resize queue (push, terminal.go) only between
\* the handler's close of the queue and its close of the connection.
PanicIsLate ==
  /\ ~queue => exec \in {"cancel", "closeConn", "done"}
  /\ readLoop = "panicked" => ~queue /\ exec \in {"cancel", "closeConn"}

\* The conjuncts of Shell!TypeOK, by the kind of the variable.
ControlTyped ==
  /\ exec \in {"request", "probe", "exec"} \cup Shell!AfterExec
  /\ readLoop \in {"off", "check", "read", "pipe", "leaving", "done", "panicked"}
  /\ copier \in {"idle", "writing", "recording", "ended"}
  /\ shell \in {"none", "running", "exited"}
ChannelsTyped ==
  /\ cancelled \in BOOLEAN /\ stdin \in BOOLEAN /\ queue \in BOOLEAN
  /\ conn \in BOOLEAN /\ browser \in BOOLEAN
CountsTyped ==
  /\ produced \in 0..MaxChunks /\ sent \in 0..MaxChunks /\ recorded \in 0..MaxChunks
  /\ saved \in 0..Shell!NotSaved /\ messages \in 0..MaxMessages

SessionInv ==
  /\ ControlTyped /\ ChannelsTyped /\ CountsTyped
  /\ ChunksInOrder /\ SessionIsClosed /\ PanicIsLate

LEMMA SessionStart == Shell!Init => SessionInv
<1> SUFFICES ASSUME Shell!Init PROVE SessionInv
  OBVIOUS
<1>1. ControlTyped
  BY DEF Shell!Init, ControlTyped, Shell!AfterExec
<1>2. ChannelsTyped
  BY Zenon DEF Shell!Init, ChannelsTyped
<1>3. CountsTyped /\ ChunksInOrder
  BY TerminalAssumption
     DEF Shell!TerminalAssumption, Shell!Init, CountsTyped, Shell!NotSaved, ChunksInOrder
<1>4. SessionIsClosed /\ PanicIsLate
  <2>1. exec = "request" /\ readLoop = "off" /\ queue
    BY DEF Shell!Init
  <2>2. QED
    BY <2>1 DEF SessionIsClosed, Ending, PanicIsLate
<1>5. QED
  BY <1>1, <1>2, <1>3, <1>4 DEF SessionInv

\* The handler, up to its deferred calls.
LEMMA HandlerSession ==
  ASSUME SessionInv, Shell!Refuse \/ Shell!Upgrade \/ Shell!NoShell \/ Shell!StartExec
                     \/ Shell!ExecReturns \/ Shell!CloseSent \/ Shell!SaveRecording
  PROVE  SessionInv'
<1> USE DEF SessionInv, Shell!output, Shell!channels, Shell!outside, Shell!Refuse, Shell!Upgrade,
            Shell!NoShell, Shell!StartExec, Shell!ExecReturns, Shell!CloseSent, Shell!SaveRecording
<1>1. ControlTyped'
  BY DEF ControlTyped, Shell!AfterExec
<1>2. UNCHANGED <<cancelled, stdin, queue, conn, browser, copier, produced, sent, recorded, messages>>
  OBVIOUS
<1>3. ChannelsTyped'
  BY <1>2 DEF ChannelsTyped
<1>4. CountsTyped'
  <2>1. saved' = saved \/ saved' = recorded
    OBVIOUS
  <2>2. QED
    BY <1>2, <2>1, TerminalAssumption DEF CountsTyped, Shell!NotSaved, Shell!TerminalAssumption
<1>5. ChunksInOrder'
  BY <1>2 DEF ChunksInOrder
<1>6. SessionIsClosed' /\ PanicIsLate'
  <2>1. CASE Shell!Refuse \/ Shell!NoShell
    BY <2>1, <1>2 DEF SessionIsClosed, Ending, PanicIsLate
  <2>2. CASE Shell!Upgrade
    BY <2>2, <1>2 DEF SessionIsClosed, Ending, PanicIsLate
  <2>3. CASE Shell!StartExec
    BY <2>3, <1>2 DEF SessionIsClosed, Ending, PanicIsLate
  <2>4. CASE Shell!ExecReturns \/ Shell!CloseSent \/ Shell!SaveRecording
    <3>1. /\ readLoop # "off" /\ queue /\ readLoop' = readLoop
          /\ exec' \in {"sending", "save", "closeStdin"}
      BY <2>4 DEF SessionIsClosed, Ending, PanicIsLate
    <3>2. QED
      BY <3>1, <1>2 DEF SessionIsClosed, Ending, PanicIsLate
  <2>5. QED
    BY <2>1, <2>2, <2>3, <2>4
<1>7. QED
  BY <1>1, <1>3, <1>4, <1>5, <1>6

\* The deferred calls, each of which closes one thing.
LEMMA DeferredSession ==
  ASSUME SessionInv, Shell!Deferred, ~Shell!Crashed
  PROVE  SessionInv'
<1> USE DEF SessionInv, Shell!output, Shell!outside, Shell!channels, Shell!Deferred, Shell!StdinAfterReturn
<1>1. ControlTyped'
  BY DEF ControlTyped, Shell!AfterExec
<1>2. UNCHANGED <<readLoop, copier, browser, produced, sent, recorded, saved, messages>>
  OBVIOUS
<1>3. /\ cancelled' = cancelled \/ cancelled' = TRUE
      /\ stdin' = stdin \/ stdin' = FALSE
      /\ queue' = queue \/ queue' = FALSE
      /\ conn' = conn \/ conn' = FALSE
  OBVIOUS
<1>4. ChannelsTyped'
  BY <1>2, <1>3, Zenon DEF ChannelsTyped
<1>5. CountsTyped' /\ ChunksInOrder'
  BY <1>2 DEF CountsTyped, ChunksInOrder
<1>6. SessionIsClosed' /\ PanicIsLate'
  BY DEF SessionIsClosed, Ending, PanicIsLate, Shell!Crashed
<1>7. QED
  BY <1>1, <1>4, <1>5, <1>6

\* readLoop: it closes the pipe and cancels the session when it leaves.
LEMMA ReaderSession ==
  ASSUME SessionInv, Shell!ReaderStep \/ Shell!ReadError
  PROVE  SessionInv'
<1> USE DEF SessionInv, Shell!output, Shell!channels, Shell!outside, Shell!ReaderStep, Shell!ReadError,
            Shell!ReadFails, Shell!Check, Shell!Input, Shell!InputTaken, Shell!Resize, Shell!Leave,
            Shell!Arrives
<1>1. ControlTyped'
  BY DEF ControlTyped
<1>2. /\ UNCHANGED <<exec, copier, queue, conn, browser, produced, sent, recorded, saved>>
      /\ messages' = messages \/ (messages < MaxMessages /\ messages' = messages + 1)
  OBVIOUS
<1>3. \/ UNCHANGED <<stdin, cancelled>>
      \/ stdin' = FALSE /\ cancelled' = TRUE
  OBVIOUS
<1>4. ChannelsTyped'
  BY <1>2, <1>3, Zenon DEF ChannelsTyped
<1>5. CountsTyped' /\ ChunksInOrder'
  BY <1>2, TerminalAssumption DEF CountsTyped, ChunksInOrder, Shell!TerminalAssumption
<1>6. SessionIsClosed' /\ PanicIsLate'
  BY DEF SessionIsClosed, PanicIsLate, Shell!Crashed, ControlTyped, Shell!AfterExec
<1>7. QED
  BY <1>1, <1>4, <1>5, <1>6

\* The copy of the output, the shell and the browser.
LEMMA OutsideSession ==
  ASSUME SessionInv, Shell!CopierStep \/ Shell!ShellWrites \/ Shell!ShellExits \/ Shell!BrowserLeaves
  PROVE  SessionInv'
<1> USE DEF SessionInv, Shell!output, Shell!channels, Shell!outside, Shell!CopierStep, Shell!BeginWrite,
            Shell!WriteEnds, Shell!Delivered, Shell!Failed, Shell!WriteRecord, Shell!TornDown,
            Shell!ShellWrites, Shell!ShellExits, Shell!BrowserLeaves
<1>1. ControlTyped'
  BY DEF ControlTyped
<1>2. /\ UNCHANGED <<exec, readLoop, cancelled, stdin, queue, conn, saved, messages>>
      /\ browser' = browser \/ browser' = FALSE
  OBVIOUS
<1>3. ChannelsTyped'
  BY <1>2, Zenon DEF ChannelsTyped
<1>4. CountsTyped' /\ ChunksInOrder'
  BY TerminalAssumption DEF CountsTyped, Shell!TerminalAssumption, ChunksInOrder
<1>5. SessionIsClosed' /\ PanicIsLate'
  BY <1>2 DEF SessionIsClosed, PanicIsLate
<1>6. QED
  BY <1>1, <1>3, <1>4, <1>5

LEMMA SessionStep == SessionInv /\ [Shell!Next]_(Shell!vars) => SessionInv'
<1> SUFFICES ASSUME SessionInv, [Shell!Next]_(Shell!vars) PROVE SessionInv'
  OBVIOUS
<1>1. CASE UNCHANGED Shell!vars
  BY <1>1 DEF Shell!vars, SessionInv, ControlTyped, ChannelsTyped, CountsTyped, ChunksInOrder,
              SessionIsClosed, PanicIsLate
<1>2. QED
  BY <1>1, HandlerSession, DeferredSession, ReaderSession, OutsideSession DEF Shell!Next, Shell!HandlerStep

\* A session is well typed, and no chunk is recorded that was not delivered.
THEOREM TerminalTypeCorrect == Shell!Spec => [](Shell!TypeOK /\ ChunksInOrder)
<1>1. SessionInv => Shell!TypeOK /\ ChunksInOrder
  BY Zenon DEF SessionInv, Shell!TypeOK, ControlTyped, ChannelsTyped, CountsTyped
<1>2. QED
  BY <1>1, SessionStart, SessionStep, PTL DEF Shell!Spec

\* When the handler has returned from a session it ran, the pipe, the queue
\* and the connection are closed and the context is done: nothing is left for
\* readLoop to wait on.  readLoop can only panic between the close of the queue
\* and the close of the connection.
THEOREM SessionLeavesNothingOpen == Shell!Spec => [](SessionIsClosed /\ PanicIsLate)
<1>1. SessionInv => SessionIsClosed /\ PanicIsLate
  BY DEF SessionInv
<1>2. QED
  BY <1>1, SessionStart, SessionStep, PTL DEF Shell!Spec

-----------------------------------------------------------------------------
(***************************************************************************)
(* The log stream: whoever waits, waits for somebody who goes on.          *)
(***************************************************************************)

\* streamDone holds one result, from the end of the copy until it is taken.
CopyTells ==
  /\ done # "empty" => stream \in {"ended", "closed"}
  /\ stream \in {"ended", "closed"} /\ logHandler \in {"check", "scan", "send", "wait"} => done # "empty"
  /\ stream = "write" <=> item # "none"

\* The handler waits for a result that is there, or behind a line longer than
\* the scanner's buffer; when it has left its loop, the copy has ended or finds
\* the pipe closed; and the mutex is held by one who is writing.
NobodyIsStuck ==
  /\ logHandler = "wait" => (stream = "closed" /\ done # "empty") \/ (item = "long" /\ reading)
  /\ logHandler \in {"final", "deferred", "done"} => ~reading \/ stream \in {"ended", "closed"}
  /\ logHandler \in {"check", "scan", "send"} => reading
  /\ writeMu = "handler" => logHandler \in {"send", "final"}
  /\ writeMu = "ping" <=> ping = "write"
  /\ logHandler = "done" => ctxDone /\ ~open

StreamInv ==
  Logs!TypeOK /\ CopyTells /\ NobodyIsStuck

LEMMA StreamStart == Logs!Init => StreamInv
<1> SUFFICES ASSUME Logs!Init PROVE StreamInv
  OBVIOUS
<1>1. reading \in BOOLEAN /\ ctxDone \in BOOLEAN /\ watcher \in BOOLEAN /\ client \in BOOLEAN /\ open \in BOOLEAN
  BY Zenon DEF Logs!Init
<1>2. lines \in 0..MaxLines
  BY LogStreamAssumption DEF Logs!LogStreamAssumption, Logs!Init
<1>3. Logs!TypeOK
  BY <1>1, <1>2 DEF Logs!Init, Logs!TypeOK
<1>4. reading
  BY Zenon DEF Logs!Init
<1>5. CopyTells /\ NobodyIsStuck
  BY <1>4 DEF Logs!Init, CopyTells, NobodyIsStuck
<1>6. QED
  BY <1>3, <1>5 DEF StreamInv

LEMMA LogHandlerInv ==
  ASSUME StreamInv, Logs!HandlerStep
  PROVE  StreamInv'
<1> USE DEF StreamInv, Logs!pipe, Logs!peers, Logs!HandlerStep, Logs!TakeMu, Logs!Sends, Logs!CheckDone,
            Logs!ScanLine, Logs!ScanTooLong, Logs!ScanEnd, Logs!StreamDone, Logs!Return
<1>1. Logs!TypeOK'
  <2>1. /\ reading' = reading \/ reading' = FALSE
        /\ ctxDone' = ctxDone \/ ctxDone' = TRUE
        /\ open' = open \/ open' = FALSE
        /\ UNCHANGED <<watcher, client, ping, lines>>
    OBVIOUS
  <2>2. /\ reading' \in BOOLEAN /\ ctxDone' \in BOOLEAN /\ watcher' \in BOOLEAN
        /\ client' \in BOOLEAN /\ open' \in BOOLEAN
    BY <2>1, Zenon DEF Logs!TypeOK
  <2>3. /\ logHandler' \in {"check", "scan", "send", "wait", "final", "deferred", "done"}
        /\ stream' \in {"read", "write", "ended", "closed"} /\ item' \in {"line", "long", "none"}
        /\ done' \in {"empty", "ok", "error"} /\ writeMu' \in {"nobody", "handler", "ping"}
    BY DEF Logs!TypeOK
  <2>4. ping' \in {"wait", "write", "done"} /\ lines' \in 0..MaxLines
    BY <2>1 DEF Logs!TypeOK
  <2>5. QED
    BY <2>2, <2>3, <2>4 DEF Logs!TypeOK
<1>2. CopyTells'
  BY DEF CopyTells, NobodyIsStuck
<1>3. NobodyIsStuck'
  BY DEF CopyTells, NobodyIsStuck
<1>4. QED
  BY <1>1, <1>2, <1>3

LEMMA LogCopyInv ==
  ASSUME StreamInv, Logs!StreamStep \/ Logs!ReadLog \/ Logs!LogEnds
  PROVE  StreamInv'
<1> USE DEF StreamInv, Logs!peers, Logs!StreamStep, Logs!ReadLog, Logs!LineKinds, Logs!LogEnds,
            Logs!PipeBroken, Logs!CloseWriter, Logs!WriterClosed
<1>1. Logs!TypeOK'
  BY LogStreamAssumption DEF Logs!TypeOK, Logs!LogStreamAssumption
<1>2. CopyTells'
  BY DEF CopyTells
<1>3. NobodyIsStuck'
  BY DEF CopyTells, NobodyIsStuck
<1>4. QED
  BY <1>1, <1>2, <1>3

LEMMA LogPeersInv ==
  ASSUME StreamInv, Logs!PeerStep \/ Logs!PingTick \/ Logs!ClientLeaves
  PROVE  StreamInv'
<1> USE DEF StreamInv, Logs!pipe, Logs!PeerStep, Logs!PingTick, Logs!PingSent, Logs!PingStops,
            Logs!WatcherEnds, Logs!ClientLeaves
<1>1. Logs!TypeOK'
  BY DEF Logs!TypeOK
<1>2. CopyTells'
  BY DEF CopyTells
<1>3. NobodyIsStuck'
  BY DEF NobodyIsStuck
<1>4. QED
  BY <1>1, <1>2, <1>3

LEMMA StreamStep == StreamInv /\ [Logs!Next]_(Logs!vars) => StreamInv'
<1> SUFFICES ASSUME StreamInv, [Logs!Next]_(Logs!vars) PROVE StreamInv'
  OBVIOUS
<1>1. CASE UNCHANGED Logs!vars
  BY <1>1 DEF Logs!vars, StreamInv, Logs!TypeOK, CopyTells, NobodyIsStuck
<1>2. QED
  BY <1>1, LogHandlerInv, LogCopyInv, LogPeersInv DEF Logs!Next

\* A log stream is well typed, and streamDone holds at most what the copy told.
THEOREM LogTypeCorrect == Logs!Spec => [](Logs!TypeOK /\ CopyTells)
<1>1. StreamInv => Logs!TypeOK /\ CopyTells
  BY DEF StreamInv
<1>2. QED
  BY <1>1, StreamStart, StreamStep, PTL DEF Logs!Spec

\* The handler, the copy and the ping loop wait for each other only where the
\* other goes on; the exception is a line longer than the scanner's buffer.
THEOREM LogsNeverStick == Logs!Spec => []NobodyIsStuck
<1>1. StreamInv => NobodyIsStuck
  BY DEF StreamInv
<1>2. QED
  BY <1>1, StreamStart, StreamStep, PTL DEF Logs!Spec

-----------------------------------------------------------------------------
(***************************************************************************)
(* The three together, as MCStreams composes them.                         *)
(***************************************************************************)

LEMMA SumSteps ==
  [MCNext]_all => [Next]_vars /\ [Shell!Next]_(Shell!vars) /\ [Logs!Next]_(Logs!vars)
BY DEF MCNext, all, vars, shellVars, logVars, Shell!vars, Logs!vars

\* Whichever part streams to the browser, the promises of each part hold of
\* the composition that MCStreams checks.
THEOREM StreamsAreSafe ==
  MCSpec => [](/\ NoPanic /\ BatchIsPending /\ NoGap
               /\ RecordingIsWhatWasSent /\ SessionIsClosed /\ PanicIsLate /\ NobodyIsStuck)
<1>1. MCInit => IInv /\ ShellInv /\ SessionInv /\ StreamInv
  BY InitOK, ShellStart, SessionStart, StreamStart DEF MCInit
<1>2. IInv /\ ShellInv /\ SessionInv /\ StreamInv /\ [MCNext]_all
        => (IInv /\ ShellInv /\ SessionInv /\ StreamInv)'
  BY SumSteps, NextOK, ShellStep, SessionStep, StreamStep
<1>3. IInv /\ ShellInv /\ SessionInv /\ StreamInv =>
        /\ NoPanic /\ BatchIsPending /\ NoGap
        /\ RecordingIsWhatWasSent /\ SessionIsClosed /\ PanicIsLate /\ NobodyIsStuck
  BY DEF IInv, ShellInv, SessionInv, StreamInv
<1>4. QED
  BY <1>1, <1>2, <1>3, PTL DEF MCSpec
=============================================================================
