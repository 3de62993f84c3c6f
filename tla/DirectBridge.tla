---------------------------- MODULE DirectBridge ----------------------------
(***************************************************************************)
(* A terminal without tmux (--no-tmux): spawn_direct_bridge in             *)
(* src/terminal.rs.  One shell on a PTY, a reader and a writer task on one *)
(* thread.  Unlike the bridge to tmux it has no token by which the reader  *)
(* could stop the writer, and the writer waits for the shell inside its    *)
(* task.                                                                   *)
(***************************************************************************)
EXTENDS InputPath

VARIABLES
  handler,  \* the request: idle, bridged or refused
  reader,   \* the reader task: loop, close, done
  child,    \* the shell: running, hup (signalled), exited or reaped
  socket    \* open, closing (the server sent its close), closed

lifeVars == <<mode, handler, reader, child, socket>>

directVars == <<lifeVars, writer, inputVars>>

\* child.wait() blocks the thread.
ThreadFree == writer # "wait"

-----------------------------------------------------------------------------
(* ws_terminal *)

StartDirect ==
  /\ handler = "idle"
  /\ handler' = "bridged"
  /\ reader' = "loop"
  /\ StartWriter
  /\ child' = "running"
  /\ UNCHANGED socket

\* openpty or spawn fails.
SpawnFails ==
  /\ handler = "idle"
  /\ handler' = "refused"
  /\ socket' = "closed"
  /\ UNCHANGED <<mode, reader, writer, child, inputVars>>

-----------------------------------------------------------------------------
(* The browser and the shell *)

BrowserTypes(msg) ==
  /\ socket # "closed"
  /\ Type(msg)
  /\ UNCHANGED lifeVars

\* The browser closes, answers a close, or is gone.
BrowserCloses ==
  /\ handler = "bridged"
  /\ socket # "closed"
  /\ socket' = "closed"
  /\ UNCHANGED <<mode, handler, reader, writer, child, inputVars>>

ChildReads ==
  /\ child = "running"
  /\ Consume
  /\ UNCHANGED lifeVars

ChildExits ==
  /\ child \in {"running", "hup"}
  /\ child' = "exited"
  /\ UNCHANGED <<mode, handler, reader, writer, socket, inputVars>>

-----------------------------------------------------------------------------
(* The reader *)

ReaderTo(from, to) ==
  /\ ThreadFree
  /\ reader = from
  /\ reader' = to
  /\ UNCHANGED <<mode, handler, writer, child, inputVars>>

\* The shell is gone: the read fails.
ReaderEof ==
  /\ child \in {"exited", "reaped"}
  /\ ReaderTo("loop", "close")
  /\ UNCHANGED socket

\* Output, or the ping every 30 seconds, cannot be sent.
ReaderSendFails ==
  /\ socket # "open"
  /\ ReaderTo("loop", "close")
  /\ UNCHANGED socket

\* Mutant: leaves the socket to the writer.
Closed_not == socket

\* session.close: the browser is asked to close.
Closed == IF socket = "open" THEN "closing" ELSE socket

ReaderCloses ==
  /\ ReaderTo("close", "done")
  /\ socket' = Closed

-----------------------------------------------------------------------------
(* The writer *)

WriterTo(from, to) ==
  /\ writer \in from
  /\ writer' = to
  /\ UNCHANGED <<mode, handler, inputVars>>

WriterReads ==
  /\ Recv
  /\ UNCHANGED lifeVars

WriterWrites(n) ==
  /\ child = "running"
  /\ WriteSome(n)
  /\ UNCHANGED lifeVars

\* The stream has ended: a close, or the end of the connection, comes after
\* every message.
RecvEnds ==
  /\ socket = "closed"
  /\ inbox = <<>>
  /\ WriterTo({"recv"}, "hangup")
  /\ UNCHANGED <<reader, child, socket>>

\* A pong on a session that the reader has closed.
PongFails ==
  /\ socket = "closing"
  /\ WriterTo({"recv"}, "hangup")
  /\ UNCHANGED <<reader, child, socket>>

\* Nobody has the other end of the PTY open.
WriteFails ==
  /\ child = "exited"
  /\ WriterTo({"write"}, "hangup")
  /\ UNCHANGED <<reader, child, socket>>

\* Mutant: no signal.
Hup_not == child

Hup == IF child = "running" THEN "hup" ELSE child

Hangup ==
  /\ WriterTo({"hangup"}, "wait")
  /\ child' = Hup
  /\ UNCHANGED <<reader, socket>>

Reap ==
  /\ child = "exited"
  /\ WriterTo({"wait"}, "abort")
  /\ child' = "reaped"
  /\ UNCHANGED <<reader, socket>>

\* pty_to_ws.abort(), session.close().
WriterEnds ==
  /\ WriterTo({"abort"}, "done")
  /\ reader' = "done"
  /\ socket' = "closed"
  /\ UNCHANGED child

-----------------------------------------------------------------------------
DirectInit ==
  /\ handler = "idle"
  /\ reader = "none"
  /\ writer = "none"
  /\ child = "none"
  /\ socket = "open"
  /\ InputInit

ReaderStep == ReaderEof \/ ReaderSendFails \/ ReaderCloses

WriterEnding == RecvEnds \/ WriteFails \/ Hangup \/ Reap \/ WriterEnds

DirectNext ==
  \/ StartDirect
  \/ SpawnFails
  \/ \E data \in Inputs : BrowserTypes(Input(data))
  \/ \E size \in Sizes : BrowserTypes(Resized(size))
  \/ BrowserCloses
  \/ ChildReads
  \/ ChildExits
  \/ ReaderStep
  \/ WriterReads
  \/ \E n \in 1..Room : WriterWrites(n)
  \/ PongFails
  \/ WriterEnding

\* Tasks run; a signalled shell ends; a browser that is asked to close does.
\* Nothing makes a shell read its input.
DirectFairness ==
  /\ WF_directVars(ReaderStep)
  /\ WF_directVars(WriterReads)
  /\ WF_directVars(\E n \in 1..Room : WriterWrites(n))
  /\ WF_directVars(WriterEnding)
  /\ WF_directVars(child = "hup" /\ ChildExits)
  /\ WF_directVars(socket = "closing" /\ BrowserCloses)

-----------------------------------------------------------------------------
(* Properties *)

DirectTypeOK ==
  /\ handler \in {"idle", "bridged", "refused"}
  /\ reader \in {"none", "loop", "close", "done"}
  /\ writer \in {"none", "recv", "write", "hangup", "wait", "abort", "done"}
  /\ child \in {"none", "running", "hup", "exited", "reaped"}
  /\ socket \in {"open", "closing", "closed"}

Released == reader = "done" /\ writer = "done" /\ child = "reaped" /\ socket = "closed"

\* The PTY is full and the shell does not read it.
HeldUp == writer = "write" /\ child = "running" /\ Len(pty) = Room

\* When the browser has gone or the shell has exited, both tasks end, the shell
\* is reaped and the socket closed, though no token joins the two tasks.  One
\* thing can keep a shell alive that nobody watches: the writer sits in
\* async_write because the shell does not read its input.
DirectEnds ==
  (handler = "bridged" /\ (socket # "open" \/ child = "exited")) ~> (Released \/ HeldUp)

\* The phase of the connection, as a browser can tell it.
DirectPhase ==
  CASE handler = "idle"    -> "idle"
    [] handler = "refused" -> "refused"
    [] OTHER ->
         IF Released THEN "closed"
         ELSE IF writer \in {"recv", "write"} THEN "open" ELSE "closing"

DirectConnection == INSTANCE TerminalConnection WITH
  Connections <- {1},
  phase <- [c \in {1} |-> DirectPhase],
  paneGone <- IF child \in {"exited", "reaped"} THEN {1} ELSE {},
  reported <- {}

\* The two tasks keep the promise the bridge to tmux keeps: see
\* TerminalConnection.
DirectImplementsConnection == DirectConnection!ConnectionSpec
=============================================================================
