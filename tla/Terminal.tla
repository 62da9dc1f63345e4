------------------------------ MODULE Terminal ------------------------------
(***************************************************************************)
(* One interactive terminal of internal/handler/ws/terminal.go: the        *)
(* handler that runs the exec session, the goroutine that reads the        *)
(* browser's messages, and the goroutine with which client-go copies the   *)
(* shell's output to the browser and to the recording.                     *)
(*                                                                         *)
(* Output is counted in chunks.  The shell, the browser and client-go are  *)
(* external: they do what HandleExec has to be ready for.                  *)
(***************************************************************************)
EXTENDS Naturals

CONSTANTS
  MaxChunks,    \* output chunks the shell writes
  MaxMessages   \* messages the browser sends

TerminalAssumption == MaxChunks \in Nat /\ MaxMessages \in Nat

VARIABLES
  handler,  \* HandleExec: "request", "probe", "exec", then the steps after Exec
  reader,   \* readLoop: "off", "check", "read", "pipe", "leaving", "done" or "panicked"
  copier,   \* output: "idle", "writing", "recording" or "ended"
  cancelled,\* the session's context is done
  stdin, queue, conn,  \* the pipe's writer, the resize queue and the connection are open
  shell,    \* "none", "running" or "exited"
  browser,  \* the browser is there
  produced, sent, recorded,  \* chunks written by the shell, delivered, in recordingBuf
  saved,    \* chunks of the saved recording, or NotSaved
  messages  \* messages sent by the browser

vars == <<handler, reader, copier, cancelled, stdin, queue, conn, shell, browser,
          produced, sent, recorded, saved, messages>>
output == <<copier, produced, sent, recorded>>
channels == <<stdin, queue, conn>>
outside == <<shell, browser, messages>>

NotSaved == MaxChunks + 1

(* The steps of HandleExec once Exec has returned: the close message, the  *)
(* recording, and the deferred calls, last declared first.                 *)
AfterExec == {"sending", "save", "closeStdin", "closeQueue", "cancel", "closeConn", "done"}

TypeOK ==
  /\ handler \in {"request", "probe", "exec"} \cup AfterExec
  /\ reader \in {"off", "check", "read", "pipe", "leaving", "done", "panicked"}
  /\ copier \in {"idle", "writing", "recording", "ended"}
  /\ cancelled \in BOOLEAN /\ stdin \in BOOLEAN /\ queue \in BOOLEAN
  /\ conn \in BOOLEAN /\ browser \in BOOLEAN
  /\ shell \in {"none", "running", "exited"}
  /\ produced \in 0..MaxChunks /\ sent \in 0..MaxChunks /\ recorded \in 0..MaxChunks
  /\ saved \in 0..NotSaved /\ messages \in 0..MaxMessages

Init ==
  /\ handler = "request" /\ reader = "off" /\ copier = "idle"
  /\ cancelled = FALSE /\ stdin = TRUE /\ queue = TRUE /\ conn = TRUE
  /\ shell = "none" /\ browser = TRUE
  /\ produced = 0 /\ sent = 0 /\ recorded = 0 /\ saved = NotSaved /\ messages = 0

Crashed == reader = "panicked"

-----------------------------------------------------------------------------
(* HandleExec.                                                             *)

(* The ticket, the account, the permission and the cluster are checked     *)
(* before the upgrade: a refusal answers 400 and nothing is opened.        *)
Refuse ==
  /\ handler = "request" /\ handler' = "done"
  /\ UNCHANGED <<reader, cancelled, saved, output, channels, outside>>
Upgrade ==
  /\ handler = "request" /\ handler' = "probe"
  /\ UNCHANGED <<reader, cancelled, saved, output, channels, outside>>

(* detectShell found none, or the exec client could not be built.          *)
NoShell ==
  /\ handler = "probe" /\ handler' = "closeConn"
  /\ UNCHANGED <<reader, cancelled, saved, output, channels, outside>>
StartExec ==
  /\ handler = "probe" /\ handler' = "exec"
  /\ reader' = "check" /\ shell' = "running"
  /\ UNCHANGED <<cancelled, saved, output, channels, browser, messages>>

(* Exec returns once the shell has exited and its output is copied, or as  *)
(* soon as the context is done, whatever its copier is doing then.         *)
StreamEnded ==
  shell = "exited" /\ (copier = "ended" \/ (copier = "idle" /\ sent = produced))
ExecReturns ==
  /\ handler = "exec" /\ (StreamEnded \/ cancelled)
  /\ handler' = "sending"
  /\ UNCHANGED <<reader, cancelled, saved, output, channels, outside>>

(* sendTermMsg: the close message is written without recWriter's mutex.    *)
CloseSent ==
  /\ handler = "sending" /\ handler' = "save"
  /\ UNCHANGED <<reader, cancelled, saved, output, channels, outside>>

(* recordingBuf.String() is handed to a goroutine that saves it.           *)
SaveRecording ==
  /\ handler = "save" /\ handler' = "closeStdin" /\ saved' = recorded
  /\ UNCHANGED <<reader, cancelled, output, channels, outside>>

\* a slip: the pipe is not closed
StdinLeftOpen == stdin
StdinAfterReturn == FALSE
Deferred ==
  \/ /\ handler = "closeStdin" /\ handler' = "closeQueue" /\ stdin' = StdinAfterReturn
     /\ UNCHANGED <<reader, cancelled, saved, queue, conn, output, outside>>
  \/ /\ handler = "closeQueue" /\ handler' = "cancel" /\ queue' = FALSE
     /\ UNCHANGED <<reader, cancelled, saved, stdin, conn, output, outside>>
  \/ /\ handler = "cancel" /\ handler' = "closeConn" /\ cancelled' = TRUE
     /\ UNCHANGED <<reader, saved, channels, output, outside>>
  \/ /\ handler = "closeConn" /\ handler' = "done" /\ conn' = FALSE
     /\ UNCHANGED <<reader, cancelled, saved, stdin, queue, output, outside>>

HandlerStep == ~Crashed /\ (NoShell \/ StartExec \/ ExecReturns \/ CloseSent \/ SaveRecording \/ Deferred)

-----------------------------------------------------------------------------
(* readLoop.                                                               *)

Check ==
  /\ reader = "check" /\ reader' = IF cancelled THEN "leaving" ELSE "read"
  /\ UNCHANGED <<handler, cancelled, saved, output, channels, outside>>

(* ReadMessage fails once the connection is closed on either side; after   *)
(* pongWait it fails anyway, since nothing sends pings to this connection. *)
ReadFails ==
  /\ reader = "read" /\ reader' = "leaving"
  /\ UNCHANGED <<handler, cancelled, saved, output, channels, outside>>

Arrives == browser /\ conn /\ messages < MaxMessages /\ messages' = messages + 1

Input ==
  /\ reader = "read" /\ Arrives /\ reader' = "pipe"
  /\ UNCHANGED <<handler, cancelled, saved, output, channels, shell, browser>>

(* Write on the pipe returns when client-go's copy to the shell has taken  *)
(* the data, or when the pipe is closed.                                   *)
InputTaken ==
  /\ reader = "pipe" /\ ((handler = "exec" /\ shell = "running") \/ ~stdin)
  /\ reader' = "check"
  /\ UNCHANGED <<handler, cancelled, saved, output, channels, outside>>

(* termSizeQueue.push: a send with a default case, which still panics when *)
(* the channel is closed.                                                  *)
Resize ==
  /\ reader = "read" /\ Arrives
  /\ reader' = IF queue THEN "check" ELSE "panicked"
  /\ UNCHANGED <<handler, cancelled, saved, output, channels, shell, browser>>

(* The deferred calls of readLoop.                                         *)
Leave ==
  /\ reader = "leaving" /\ reader' = "done" /\ stdin' = FALSE /\ cancelled' = TRUE
  /\ UNCHANGED <<handler, saved, queue, conn, output, outside>>

ReaderStep == ~Crashed /\ (Check \/ Input \/ InputTaken \/ Resize \/ Leave)
ReadError == ~Crashed /\ ReadFails

-----------------------------------------------------------------------------
(* recordingWriter.Write, called by client-go's copy of the output; the    *)
(* copy stops at a write error and when the stream is torn down.           *)
StreamOpen == handler \in {"exec"} \cup AfterExec /\ copier # "ended"

BeginWrite ==
  /\ StreamOpen /\ copier = "idle" /\ sent < produced
  /\ copier' = "writing"
  /\ UNCHANGED <<handler, reader, cancelled, saved, produced, sent, recorded, channels, outside>>

Delivered == sent' = sent + 1 /\ copier' = "recording" /\ UNCHANGED recorded
\* a slip: a chunk is recorded before its write is known to fail
FailedRecorded == copier' = "ended" /\ recorded' = recorded + 1 /\ UNCHANGED sent
Failed == copier' = "ended" /\ UNCHANGED <<sent, recorded>>
WriteEnds ==
  /\ copier = "writing"
  /\ (conn /\ Delivered) \/ Failed
  /\ UNCHANGED <<handler, reader, cancelled, saved, produced, channels, outside>>
WriteRecord ==
  /\ copier = "recording" /\ recorded' = recorded + 1 /\ copier' = "idle"
  /\ UNCHANGED <<handler, reader, cancelled, saved, produced, sent, channels, outside>>

TornDown ==
  /\ StreamOpen /\ copier = "idle" /\ handler \in AfterExec /\ copier' = "ended"
  /\ UNCHANGED <<handler, reader, cancelled, saved, produced, sent, recorded, channels, outside>>

CopierStep == ~Crashed /\ (BeginWrite \/ WriteEnds \/ WriteRecord \/ TornDown)

-----------------------------------------------------------------------------
(* The shell and the browser.                                              *)
ShellWrites ==
  /\ ~Crashed /\ shell = "running" /\ produced < MaxChunks /\ produced' = produced + 1
  /\ UNCHANGED <<handler, reader, cancelled, saved, copier, sent, recorded, channels, outside>>
ShellExits ==
  /\ ~Crashed /\ shell = "running" /\ shell' = "exited"
  /\ UNCHANGED <<handler, reader, cancelled, saved, output, channels, browser, messages>>
BrowserLeaves ==
  /\ ~Crashed /\ browser /\ browser' = FALSE
  /\ UNCHANGED <<handler, reader, cancelled, saved, output, channels, shell, messages>>

Next == Refuse \/ Upgrade \/ HandlerStep \/ ReaderStep \/ ReadError \/ CopierStep
        \/ ShellWrites \/ ShellExits \/ BrowserLeaves

(* Goroutines run; a read on a closed connection fails.                    *)
Fairness ==
  /\ WF_vars(HandlerStep) /\ WF_vars(CopierStep)
  /\ WF_vars(ReaderStep)
  /\ WF_vars((~browser \/ ~conn) /\ ReadError)

Spec == Init /\ [][Next]_vars
FairSpec == Spec /\ Fairness

-----------------------------------------------------------------------------
(* The recording holds nothing the browser was not sent, and when the      *)
(* session ended with its shell it holds everything that was.              *)
RecordingIsWhatWasSent ==
  saved # NotSaved => saved <= sent /\ (~cancelled => saved = sent)

(* When the shell has exited or the browser is gone, the handler returns   *)
(* and its reader does not stay behind.                                    *)
SessionEnds ==
  (shell = "exited" \/ (shell = "running" /\ ~browser)) ~>
    (Crashed \/ (handler = "done" /\ reader = "done"))

(* logs.go: "gorilla/websocket requires exactly one concurrent writer".    *)
OneWriter == ~(handler = "sending" /\ copier = "writing")
=============================================================================
