------------------------------ MODULE MCStreams ------------------------------
(***************************************************************************)
(* What streams to a browser, for TLC: the hub of resource events, a       *)
(* terminal in a pod and a pod's log.  The three keep separate state, so a *)
(* behaviour exercises one of them, chosen at first, and leaves the others *)
(* as they were.                                                           *)
(***************************************************************************)
EXTENDS Hub

CONSTANTS MaxChunks, MaxMessages, MaxLines

VARIABLES
  part,
  exec, readLoop, copier, cancelled, stdin, queue, conn, shell, browser, produced, sent,
  recorded, saved, messages,
  logHandler, stream, item, reading, done, ctxDone, ping, writeMu, watcher, client, open, lines

Shell == INSTANCE Terminal WITH handler <- exec, reader <- readLoop
Logs == INSTANCE LogStream

ASSUME TerminalAssumption == Shell!TerminalAssumption
ASSUME LogStreamAssumption == Logs!LogStreamAssumption

shellVars == <<exec, readLoop, copier, cancelled, stdin, queue, conn, shell, browser, produced,
               sent, recorded, saved, messages>>
logVars == <<logHandler, stream, item, reading, done, ctxDone, ping, writeMu, watcher, client,
             open, lines>>
all == <<part, vars, shellVars, logVars>>

MCInit == part \in {"hub", "terminal", "logs"} /\ Init /\ Shell!Init /\ Logs!Init

MCNext ==
  /\ UNCHANGED part
  /\ \/ part = "hub" /\ Next /\ UNCHANGED <<shellVars, logVars>>
     \/ part = "terminal" /\ Shell!Next /\ UNCHANGED <<vars, logVars>>
     \/ part = "logs" /\ Logs!Next /\ UNCHANGED <<vars, shellVars>>

(* The fairness of each module, where it is the part that runs.            *)
MCFairness ==
  /\ WF_vars(part = "hub" /\ Shutdown) /\ WF_vars(part = "hub" /\ Dispatch)
  /\ \A c \in Clients :
       /\ WF_vars(part = "hub" /\ Register(c)) /\ WF_vars(part = "hub" /\ Unregister(c))
       /\ WF_vars(part = "hub" /\ Refuse(c)) /\ WF_vars(part = "hub" /\ StartPumps(c))
       /\ WF_vars(part = "hub" /\ ReadFails(c)) /\ WF_vars(part = "hub" /\ LeaveStopped(c))
       /\ WF_vars(part = "hub" /\ Write(c))
  /\ WF_shellVars(part = "terminal" /\ Shell!HandlerStep)
  /\ WF_shellVars(part = "terminal" /\ Shell!CopierStep)
  /\ WF_shellVars(part = "terminal" /\ Shell!ReaderStep)
  /\ WF_shellVars(part = "terminal" /\ (~browser \/ ~conn) /\ Shell!ReadError)
  /\ WF_logVars(part = "logs" /\ Logs!HandlerStep) /\ SF_logVars(part = "logs" /\ Logs!TakeMu)
  /\ WF_logVars(part = "logs" /\ Logs!StreamStep) /\ WF_logVars(part = "logs" /\ Logs!PeerStep)

MCSpec == MCInit /\ [][MCNext]_all /\ MCFairness

(* Terminal: the recording is what the browser was sent, and a session     *)
(* whose shell or browser is gone ends.                                    *)
RecordingIsWhatWasSent == Shell!RecordingIsWhatWasSent
SessionEnds == Shell!SessionEnds

(* LogStream: when the browser leaves, nothing of its stream stays but     *)
(* what a line that is too long holds; without that exception, refuted.    *)
StreamEndsWithClient == Logs!StreamEndsWithClient
NothingStays == Logs!NothingStays
=============================================================================
