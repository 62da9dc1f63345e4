------------------------------ MODULE LogStream ------------------------------
(***************************************************************************)
(* One log stream of internal/handler/ws/logs.go: the handler that scans   *)
(* lines from a pipe and sends them, the goroutine that copies the log of  *)
(* the container into the pipe, the ping loop and the goroutine that       *)
(* waits for the browser to close.                                         *)
(***************************************************************************)
EXTENDS Naturals

CONSTANTS
  MaxLines   \* lines the container writes

LogStreamAssumption == MaxLines \in Nat

VARIABLES
  logHandler, \* HandleLogs: "check", "scan", "send", "wait", "final", "deferred" or "done"
  stream,     \* StreamLogs: "read", "write" (into the pipe), "ended" or "closed"
  item,       \* what is being written into the pipe: "line", "long" or "none"
  reading,    \* the pipe's reader is open
  done,       \* streamDone: "empty", "ok" or "error"
  ctxDone,    \* the context is done
  ping,       \* pingLoop: "wait", "write" or "done"
  writeMu,    \* who holds the write mutex: "nobody", "handler" or "ping"
  watcher,    \* the goroutine that reads until the connection closes runs
  client,     \* the browser is there
  open,       \* the server's end of the connection is open
  lines       \* lines written by the container

vars == <<logHandler, stream, item, reading, done, ctxDone, ping, writeMu, watcher, client, open, lines>>
pipe == <<stream, item, reading, done, lines>>
peers == <<ping, watcher, client>>

TypeOK ==
  /\ logHandler \in {"check", "scan", "send", "wait", "final", "deferred", "done"}
  /\ stream \in {"read", "write", "ended", "closed"} /\ item \in {"line", "long", "none"}
  /\ done \in {"empty", "ok", "error"} /\ ping \in {"wait", "write", "done"}
  /\ writeMu \in {"nobody", "handler", "ping"}
  /\ reading \in BOOLEAN /\ ctxDone \in BOOLEAN /\ watcher \in BOOLEAN
  /\ client \in BOOLEAN /\ open \in BOOLEAN
  /\ lines \in 0..MaxLines

Init ==
  /\ logHandler = "check" /\ stream = "read" /\ item = "none" /\ reading = TRUE
  /\ done = "empty" /\ ctxDone = FALSE /\ ping = "wait" /\ writeMu = "nobody"
  /\ watcher = TRUE /\ client = TRUE /\ open = TRUE /\ lines = 0

-----------------------------------------------------------------------------
(* HandleLogs.                                                             *)

(* sendLogMsg takes the mutex, then writes; Sends is the write with the    *)
(* mutex held, after which the handler goes on at next.                    *)
TakeMu ==
  /\ logHandler \in {"send", "final"} /\ writeMu = "nobody" /\ writeMu' = "handler"
  /\ UNCHANGED <<logHandler, ctxDone, open, pipe, peers>>
Sends ==
  /\ writeMu = "handler" /\ writeMu' = "nobody"
  /\ logHandler' = IF logHandler = "send" THEN "check" ELSE "deferred"
  /\ UNCHANGED <<ctxDone, open, pipe, peers>>

CheckDone ==
  /\ logHandler = "check"
  /\ \/ ctxDone /\ logHandler' = "final" /\ reading' = FALSE
     \/ ~ctxDone /\ logHandler' = "scan" /\ UNCHANGED reading
  /\ UNCHANGED <<stream, item, done, lines, ctxDone, writeMu, open, peers>>

(* Scan returns a line, or gives up at a line longer than its buffer while *)
(* the copy is still writing it, or meets the end of the pipe.             *)
ScanLine ==
  /\ logHandler = "scan" /\ stream = "write" /\ item = "line"
  /\ logHandler' = "send" /\ stream' = "read" /\ item' = "none"
  /\ UNCHANGED <<reading, done, lines, ctxDone, writeMu, open, peers>>
ScanTooLong ==
  /\ logHandler = "scan" /\ stream = "write" /\ item = "long"
  /\ logHandler' = "wait"
  /\ UNCHANGED <<ctxDone, writeMu, open, pipe, peers>>
ScanEnd ==
  /\ logHandler = "scan" /\ stream = "closed"
  /\ logHandler' = "wait"
  /\ UNCHANGED <<ctxDone, writeMu, open, pipe, peers>>

(* <-streamDone, then the error, if any, and the close message.            *)
StreamDone ==
  /\ logHandler = "wait" /\ done # "empty"
  /\ logHandler' = "final" /\ done' = "empty"
  /\ UNCHANGED <<stream, item, reading, lines, ctxDone, writeMu, open, peers>>

(* cancel() and conn.Close(), deferred.                                    *)
Return ==
  /\ logHandler = "deferred" /\ logHandler' = "done"
  /\ ctxDone' = TRUE /\ open' = FALSE
  /\ UNCHANGED <<writeMu, pipe, peers>>

HandlerStep == TakeMu \/ Sends \/ CheckDone \/ ScanLine \/ ScanTooLong \/ ScanEnd
               \/ StreamDone \/ Return

-----------------------------------------------------------------------------
(* The goroutine around StreamLogs.                                        *)
\* "long" is a line that exceeds the scanner's buffer.
LineKinds == {"line", "long"}
ReadLog ==
  /\ stream = "read" /\ ~ctxDone /\ lines < MaxLines
  /\ stream' = "write" /\ item' \in LineKinds /\ lines' = lines + 1
  /\ UNCHANGED <<logHandler, reading, done, ctxDone, writeMu, open, peers>>

(* The log ends, fails, or is cut off by the context.                      *)
LogEnds ==
  /\ stream = "read"
  /\ done' \in (IF ctxDone THEN {"error"} ELSE {"ok", "error"}) /\ stream' = "ended"
  /\ UNCHANGED <<logHandler, item, reading, lines, ctxDone, writeMu, open, peers>>

(* A write into the pipe fails once the reader is closed.                  *)
PipeBroken ==
  /\ stream = "write" /\ ~reading
  /\ stream' = "ended" /\ item' = "none" /\ done' = "error"
  /\ UNCHANGED <<logHandler, reading, lines, ctxDone, writeMu, open, peers>>

\* a slip: pw.Close is missing
WriterLeftOpen == "ended"
WriterClosed == "closed"
CloseWriter ==
  /\ stream = "ended" /\ stream' = WriterClosed
  /\ UNCHANGED <<logHandler, item, reading, done, lines, ctxDone, writeMu, open, peers>>

StreamStep == PipeBroken \/ CloseWriter \/ (ctxDone /\ LogEnds)

-----------------------------------------------------------------------------
(* pingLoop, and the goroutine that reads the connection.                  *)
PingTick ==
  /\ ping = "wait" /\ writeMu = "nobody" /\ ~ctxDone
  /\ ping' = "write" /\ writeMu' = "ping"
  /\ UNCHANGED <<logHandler, watcher, client, ctxDone, open, pipe>>
PingSent ==
  /\ ping = "write" /\ writeMu' = "nobody"
  /\ ping' = IF client /\ open THEN "wait" ELSE "done"
  /\ UNCHANGED <<logHandler, watcher, client, ctxDone, open, pipe>>
PingStops ==
  /\ ping = "wait" /\ ctxDone /\ ping' = "done"
  /\ UNCHANGED <<logHandler, writeMu, watcher, client, ctxDone, open, pipe>>

WatcherEnds ==
  /\ watcher /\ (~client \/ ~open) /\ watcher' = FALSE /\ ctxDone' = TRUE
  /\ UNCHANGED <<logHandler, writeMu, ping, client, open, pipe>>

ClientLeaves ==
  /\ client /\ client' = FALSE
  /\ UNCHANGED <<logHandler, writeMu, ping, watcher, ctxDone, open, pipe>>

PeerStep == PingSent \/ PingStops \/ WatcherEnds

Next == HandlerStep \/ StreamStep \/ PeerStep \/ ReadLog \/ LogEnds \/ PingTick \/ ClientLeaves

(* Goroutines run, and a mutex is handed to the handler in the end.        *)
Fairness ==
  /\ WF_vars(HandlerStep) /\ SF_vars(TakeMu)
  /\ WF_vars(StreamStep) /\ WF_vars(PeerStep)

Spec == Init /\ [][Next]_vars
FairSpec == Spec /\ Fairness

-----------------------------------------------------------------------------
(* Where a stream may stay for ever: the scanner has given up at a line    *)
(* longer than its buffer, the handler waits for the copy to report, and   *)
(* the copy waits for somebody to read the rest of that line.              *)
StuckOnLongLine ==
  logHandler = "wait" /\ stream = "write" /\ item = "long" /\ reading

(* "A close frame cancels the context": when the browser has left, its     *)
(* pings and the goroutine that reads the connection end, and so do the    *)
(* handler and the copy of the log, unless a line that is too long holds   *)
(* the two against each other.                                             *)
StreamEndsWithClient ==
  ~client ~> /\ ping = "done" /\ ~watcher
             /\ (logHandler = "done" /\ stream = "closed") \/ StuckOnLongLine

(* Without that exception it does not hold.                                *)
NothingStays ==
  ~client ~> (logHandler = "done" /\ stream = "closed" /\ ping = "done" /\ ~watcher)
=============================================================================
