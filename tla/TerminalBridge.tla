--------------------------- MODULE TerminalBridge ---------------------------
(***************************************************************************)
(* One WebSocket terminal connection ("bridge") per value of               *)
(* ATTACH_COUNTER: the request handler ws_terminal with tmux::attach_args, *)
(* then the two tasks of spawn_cc_bridge (src/src/terminal.rs), and the    *)
(* process-wide registry through which bridges tell each other about       *)
(* closed windows (src/src/tmux_cc.rs).                                    *)
(*                                                                         *)
(* The reader (PTY to WebSocket) and the writer (WebSocket to PTY) of a    *)
(* bridge run on one worker thread: while the writer is inside its         *)
(* blocking cleanup (child.wait, kill_session) the reader cannot run.      *)
(* Different bridges, the blocking pool and tmux interleave freely.        *)
(*                                                                         *)
(* Terminal output, input, sizes, titles and working directories are data  *)
(* that no property here tells apart; a step that only forwards them is    *)
(* left out, the failure of the send is ReaderSendFails.                   *)
(***************************************************************************)
EXTENDS TmuxServer

CONSTANTS
    NoBridge,       \* not a bridge
    TmuxMayFail,    \* whether a tmux query may fail although its server runs
    DbPoisoned,     \* whether a panic elsewhere has poisoned the database mutex
    Exitable,       \* the windows whose shell may exit
    Closers,        \* the bridges whose browser may close the socket
    Crashers,       \* the workspaces whose tmux server may crash
    Deleters        \* the workspaces whose main session a request may kill

ASSUME BridgeAssumption ==
    /\ NoBridge \notin Bridges
    /\ TmuxMayFail \in BOOLEAN
    /\ DbPoisoned \in BOOLEAN
    /\ Exitable \subseteq Windows
    /\ Closers \subseteq Bridges
    /\ Crashers \subseteq Workspaces
    /\ Deleters \subseteq Workspaces

VARIABLES
    handler,    \* where the request handler of a bridge is
    stale,      \* linked sessions attach_args listed and has not killed yet
    reader,     \* the PTY to WebSocket task
    writer,     \* the WebSocket to PTY task
    cancelled,  \* the CancellationToken both tasks share
    socket,     \* the WebSocket: open, closing (closed by the server, the stream of
                \* the browser has not ended yet) or closed
    registry,   \* window id -> the bridge whose Notify is registered
    permit,     \* bridges whose Notify holds a permit
    exited      \* bridges that sent pane_exit to their browser

bridgeVars == <<handler, stale, reader, writer, cancelled, socket, registry, permit, exited>>
vars == <<tmuxVars, bridgeVars>>

HandlerStates == {"idle", "checked", "listed", "linked", "ready", "bridged", "refused"}
ReaderStates == {"none", "replay", "select", "verifyClose", "verifyExit", "cleanup", "done"}
WriterStates == {"none", "recv", "wait", "kill", "done"}

TypeOK ==
    /\ TmuxTypeOK
    /\ handler \in [Bridges -> HandlerStates]
    /\ stale \in [Bridges -> SUBSET Bridges]
    /\ reader \in [Bridges -> ReaderStates]
    /\ writer \in [Bridges -> WriterStates]
    /\ cancelled \subseteq Bridges
    /\ socket \in [Bridges -> {"open", "closing", "closed"}]
    /\ registry \in [WindowIds -> Bridges \cup {NoBridge}]
    /\ permit \subseteq Bridges
    /\ exited \subseteq Bridges

Init ==
    /\ TmuxInit
    /\ handler = [b \in Bridges |-> "idle"]
    /\ stale = [b \in Bridges |-> {}]
    /\ reader = [b \in Bridges |-> "none"]
    /\ writer = [b \in Bridges |-> "none"]
    /\ cancelled = {}
    /\ socket = [b \in Bridges |-> "open"]
    /\ registry = [i \in WindowIds |-> NoBridge]
    /\ permit = {}
    /\ exited = {}

-----------------------------------------------------------------------------
(***************************************************************************)
(* The request handler: ws_terminal and attach_args.                       *)
(***************************************************************************)

\* The alive window that carries the name of the tab a bridge asked for.
Target(b) == {w \in Alive : WinTab[w] = TabOf[b]}

HandlerStep(b, from, to) ==
    /\ handler[b] = from
    /\ handler' = [handler EXCEPT ![b] = to]

\* has_session and has_window; a failure is a 404.
Check(b) ==
    /\ \/ /\ WsOf(b) \in main
          /\ Target(b) # {}
          /\ HandlerStep(b, "idle", "checked")
       \/ /\ WsOf(b) \notin main \/ Target(b) = {} \/ TmuxMayFail
          /\ HandlerStep(b, "idle", "refused")
    /\ UNCHANGED <<tmuxVars, stale, reader, writer, cancelled, socket, registry, permit, exited>>

\* list-sessions: every linked session of this workspace and tab is stale.
ListStale(b) ==
    /\ HandlerStep(b, "checked", "listed")
    /\ stale' = [stale EXCEPT ![b] = {l \in links : TabOf[l] = TabOf[b]}]
    /\ UNCHANGED <<tmuxVars, reader, writer, cancelled, socket, registry, permit, exited>>

KillStale(b, l) ==
    /\ handler[b] = "listed"
    /\ l \in stale[b]
    /\ stale' = [stale EXCEPT ![b] = @ \ {l}]
    /\ KillLink(l)
    /\ UNCHANGED <<handler, reader, writer, cancelled, socket, registry, permit, exited>>

\* new-session -t joins the group of the workspace if it still has a session.
CreateLink(b) ==
    /\ stale[b] = {}
    /\ \/ /\ WsOf(b) \in main \/ LinksIn(WsOf(b)) # {}
          /\ HandlerStep(b, "listed", "linked")
          /\ links' = links \cup {b}
       \/ /\ (WsOf(b) \notin main /\ LinksIn(WsOf(b)) = {}) \/ TmuxMayFail
          /\ HandlerStep(b, "listed", "refused")
          /\ UNCHANGED links
    /\ UNCHANGED <<main, window, current, client, pty>>
    /\ UNCHANGED <<stale, reader, writer, cancelled, socket, registry, permit, exited>>

\* A target session without `=`: the main session by name, or a linked session
\* when it is the only one whose name starts that way.
MainTargetFound(ws) == ws \in main \/ \E l \in Bridges : LinksIn(ws) = {l}

\* select-window in the link and list-panes in the main session.  When the window
\* or the main session has gone meanwhile the handler fails and the link stays.
SelectAndQuery(b) ==
    /\ \/ /\ MainTargetFound(WsOf(b))
          /\ HandlerStep(b, "linked", "ready")
          /\ \E w \in Target(b) : current' = [current EXCEPT ![b] = w]
       \/ /\ ~MainTargetFound(WsOf(b)) \/ Target(b) = {} \/ TmuxMayFail
          /\ HandlerStep(b, "linked", "refused")
          /\ UNCHANGED current
    /\ UNCHANGED <<main, links, window, client, pty>>
    /\ UNCHANGED <<stale, reader, writer, cancelled, socket, registry, permit, exited>>

\* The WebSocket handshake, openpty and the spawn succeed: both tasks start.
StartBridge(b) ==
    /\ HandlerStep(b, "ready", "bridged")
    /\ client' = [client EXCEPT ![b] = "starting"]
    /\ reader' = [reader EXCEPT ![b] = "replay"]
    /\ writer' = [writer EXCEPT ![b] = "recv"]
    /\ UNCHANGED <<main, links, window, current, pty>>
    /\ UNCHANGED <<stale, cancelled, socket, registry, permit, exited>>

\* The handshake, openpty or the spawn fails: the handler returns its error.
StartFails(b) ==
    /\ HandlerStep(b, "ready", "refused")
    /\ UNCHANGED <<tmuxVars, stale, reader, writer, cancelled, socket, registry, permit, exited>>

-----------------------------------------------------------------------------
(***************************************************************************)
(* The reader task.                                                        *)
(***************************************************************************)

\* The writer's cleanup blocks the worker thread of its bridge.
ThreadFree(b) == writer[b] \notin {"wait", "kill"}

ReaderStep(b, from, to) ==
    /\ reader[b] = from
    /\ ThreadFree(b)
    /\ reader' = [reader EXCEPT ![b] = to]

\* Initial replay done: register_window_close replaces whatever the map held, and
\* the new Notify has no permit.
Register(b) ==
    /\ ReaderStep(b, "replay", "select")
    /\ registry' = [registry EXCEPT ![WinId[current[b]]] = b]
    /\ UNCHANGED <<tmuxVars, handler, stale, writer, cancelled, socket, permit, exited>>

\* A send of the initial replay fails: return without registering or cancelling.
ReplayFails(b) ==
    /\ socket[b] # "open"
    /\ ReaderStep(b, "replay", "done")
    /\ UNCHANGED <<tmuxVars, handler, stale, writer, cancelled, socket, registry, permit, exited>>

ReaderCancelled(b) ==
    /\ b \in cancelled
    /\ ReaderStep(b, "select", "cleanup")
    /\ UNCHANGED <<tmuxVars, handler, stale, writer, cancelled, socket, registry, permit, exited>>

\* A WebSocket send (output, ping, title, cwd) fails.
ReaderSendFails(b) ==
    /\ socket[b] # "open"
    /\ ReaderStep(b, "select", "cleanup")
    /\ UNCHANGED <<tmuxVars, handler, stale, writer, cancelled, socket, registry, permit, exited>>

\* The PTY is drained and its client is gone.
ReaderEof(b) ==
    /\ client[b] \in {"gone", "reaped"}
    /\ pty[b] = Silent
    /\ ReaderStep(b, "select", "cleanup")
    /\ UNCHANGED <<tmuxVars, handler, stale, writer, cancelled, socket, registry, permit, exited>>

\* The working directory has changed: db.lock().unwrap() panics on a poisoned mutex
\* and the task ends inside its loop, without any cleanup.
ReaderPanics(b) ==
    /\ DbPoisoned
    /\ ReaderStep(b, "select", "done")
    /\ UNCHANGED <<tmuxVars, handler, stale, writer, cancelled, socket, registry, permit, exited>>

\* own_close.notified(): a peer saw our window close.
OwnCloseNotified(b) ==
    /\ b \in permit
    /\ ReaderStep(b, "select", "verifyClose")
    /\ permit' = permit \ {b}
    /\ UNCHANGED <<tmuxVars, handler, stale, writer, cancelled, socket, registry, exited>>

\* Mutant of notify_window_closed: the lookup's None is not handled.
NotifyUnregistered(w) == permit' = permit \cup {registry[WinId[w]]}

\* notify_window_closed: store a permit for whoever registered the id of w.
NotifyWindowClosed(w) ==
    permit' = permit \cup {b \in Bridges : registry[WinId[w]] = b}

\* %unlinked-window-close for another window.
OtherWindowClosed(b, w) ==
    /\ w \in pty[b].closes
    /\ WinId[w] # WinId[current[b]]
    /\ ReaderStep(b, "select", "select")
    /\ pty' = [pty EXCEPT ![b].closes = @ \ {w}]
    /\ NotifyWindowClosed(w)
    /\ UNCHANGED <<main, links, window, current, client>>
    /\ UNCHANGED <<handler, stale, writer, cancelled, socket, registry, exited>>

\* session.text(pane_exit): the browser hears of it unless the socket is closed.
SendPaneExit(b) ==
    exited' = IF socket[b] = "open" THEN exited \cup {b} ELSE exited

\* %unlinked-window-close for our own window needs no further check.
WindowClosed(b) ==
    /\ \E w \in pty[b].closes : WinId[w] = WinId[current[b]]
    /\ ReaderStep(b, "select", "cleanup")
    /\ SendPaneExit(b)
    /\ UNCHANGED <<tmuxVars, handler, stale, writer, cancelled, socket, registry, permit>>

\* %exit: the link died, with or without our window.
ExitSeen(b) ==
    /\ pty[b].exit
    /\ pty[b].closes = {}
    /\ ReaderStep(b, "select", "verifyExit")
    /\ pty' = [pty EXCEPT ![b].exit = FALSE]
    /\ UNCHANGED <<main, links, window, current, client>>
    /\ UNCHANGED <<handler, stale, writer, cancelled, socket, registry, permit, exited>>

\* Mutants: believe the notification; ask for the linked session instead.
WindowGone(b) == {FALSE}
LinkExists(b) == {b \in links}

\* The answers window_exists may give.
WindowExists(b) == {window[current[b]] = "alive"} \cup (IF TmuxMayFail THEN {FALSE} ELSE {})

VerifyClose(b) ==
    /\ reader[b] = "verifyClose"
    /\ \E alive \in WindowExists(b) :
          IF alive
          THEN ReaderStep(b, "verifyClose", "select") /\ UNCHANGED exited
          ELSE ReaderStep(b, "verifyClose", "cleanup") /\ SendPaneExit(b)
    /\ UNCHANGED <<tmuxVars, handler, stale, writer, cancelled, socket, registry, permit>>

VerifyExit(b) ==
    /\ ReaderStep(b, "verifyExit", "cleanup")
    /\ \E alive \in WindowExists(b) :
          IF alive THEN UNCHANGED exited ELSE SendPaneExit(b)
    /\ UNCHANGED <<tmuxVars, handler, stale, writer, cancelled, socket, registry, permit>>

\* Mutant: the loop is left without unregistering.
NotUnregistered(b) == registry

\* unregister_window_close removes the key, whoever registered it last.
Unregistered(b) == [registry EXCEPT ![WinId[current[b]]] = NoBridge]

\* Mutant: a task ends without cancelling the token.
NoCancel(b) == UNCHANGED cancelled

CancelToken(b) == cancelled' = cancelled \cup {b}

\* After the loop: unregister, cancel the token, close the WebSocket.
ReaderCleanup(b) ==
    /\ ReaderStep(b, "cleanup", "done")
    /\ registry' = Unregistered(b)
    /\ CancelToken(b)
    /\ socket' = [socket EXCEPT ![b] = IF @ = "open" THEN "closing" ELSE @]
    /\ UNCHANGED <<tmuxVars, handler, stale, writer, permit, exited>>

-----------------------------------------------------------------------------
(***************************************************************************)
(* The writer task.                                                        *)
(***************************************************************************)

WriterStep(b, from, to) ==
    /\ writer[b] = from
    /\ writer' = [writer EXCEPT ![b] = to]

\* Mutant: recv is awaited without the token.
RecvUncancelled(b) == socket[b] = "closed"

\* until_cancelled(recv) yields the cancellation, a close, an error or the end of
\* the stream.
RecvYields(b) == b \in cancelled \/ socket[b] = "closed"

\* Break out of the loop and send SIGHUP to the child.
WriterBreak(b) ==
    /\ RecvYields(b)
    /\ WriterStep(b, "recv", "wait")
    /\ UNCHANGED <<tmuxVars, handler, stale, reader, cancelled, socket, registry, permit, exited>>

\* The user types but the PTY has no client any more: async_write fails.
InputFails(b) ==
    /\ client[b] = "gone"
    /\ WriterStep(b, "recv", "wait")
    /\ UNCHANGED <<tmuxVars, handler, stale, reader, cancelled, socket, registry, permit, exited>>

\* child.wait() returns once the client process has ended.
WriterReap(b) ==
    /\ client[b] = "gone"
    /\ WriterStep(b, "wait", "kill")
    /\ client' = [client EXCEPT ![b] = "reaped"]
    /\ UNCHANGED <<main, links, window, current, pty>>
    /\ UNCHANGED <<handler, stale, reader, cancelled, socket, registry, permit, exited>>

\* kill_session(link), cancel the token, close the WebSocket and drop its stream.
WriterCleanup(b) ==
    /\ WriterStep(b, "kill", "done")
    /\ KillLink(b)
    /\ CancelToken(b)
    /\ socket' = [socket EXCEPT ![b] = "closed"]
    /\ UNCHANGED <<handler, stale, reader, registry, permit, exited>>

-----------------------------------------------------------------------------
(***************************************************************************)
(* The environment: browsers, shells, other requests, tmux.                *)
(***************************************************************************)

BrowserCloses(b) ==
    /\ b \in Closers
    /\ handler[b] = "bridged"
    /\ socket[b] # "closed"
    /\ socket' = [socket EXCEPT ![b] = "closed"]
    /\ UNCHANGED <<tmuxVars, handler, stale, reader, writer, cancelled, registry, permit, exited>>

ShellExits(w) == w \in Exitable /\ DestroyWindow(w) /\ UNCHANGED bridgeVars
RecreateTab(w) == NewWindow(w) /\ UNCHANGED bridgeVars
DeleteWorkspace(ws) == ws \in Deleters /\ KillMain(ws) /\ UNCHANGED bridgeVars
Crash(ws) == ws \in Crashers /\ ServerCrash(ws) /\ UNCHANGED bridgeVars
ClientStarts(b) == ClientAttach(b) /\ UNCHANGED bridgeVars
ClientEnds(b) == writer[b] = "wait" /\ ClientHup(b) /\ UNCHANGED bridgeVars

\* A request under way; Check is the arrival of the request.
Handler(b) ==
    \/ ListStale(b)
    \/ \E l \in Bridges : KillStale(b, l)
    \/ CreateLink(b)
    \/ SelectAndQuery(b)
    \/ StartBridge(b)
    \/ StartFails(b)

Reader(b) ==
    \/ Register(b)
    \/ ReplayFails(b)
    \/ ReaderCancelled(b)
    \/ ReaderSendFails(b)
    \/ ReaderEof(b)
    \/ ReaderPanics(b)
    \/ OwnCloseNotified(b)
    \/ \E w \in Windows : OtherWindowClosed(b, w)
    \/ WindowClosed(b)
    \/ ExitSeen(b)
    \/ VerifyClose(b)
    \/ VerifyExit(b)
    \/ ReaderCleanup(b)

Writer(b) == WriterBreak(b) \/ WriterReap(b) \/ WriterCleanup(b)

Client(b) == ClientStarts(b) \/ ClientEnds(b)

Environment ==
    \/ \E b \in Bridges : BrowserCloses(b) \/ InputFails(b)
    \/ \E w \in Windows : ShellExits(w) \/ RecreateTab(w)
    \/ \E ws \in Workspaces : DeleteWorkspace(ws) \/ Crash(ws)

Next ==
    \/ \E b \in Bridges : Check(b) \/ Handler(b) \/ Reader(b) \/ Writer(b) \/ Client(b)
    \/ Environment

\* The async runtime polls every ready task, tmux serves every client; nobody has
\* to connect, disconnect, type exit or crash.
Fairness ==
    \A b \in Bridges :
        /\ WF_vars(Handler(b))
        /\ WF_vars(Reader(b))
        /\ WF_vars(Writer(b))
        /\ WF_vars(Client(b))

Spec == Init /\ [][Next]_vars /\ Fairness

-----------------------------------------------------------------------------
(***************************************************************************)
(* Properties.                                                             *)
(***************************************************************************)

\* A browser is told pane_exit only of a window that is really gone, whatever
\* notifications, window ids of other workspaces and takeovers it may have been
\* woken by (terminal.rs: "Verify the window is truly gone before reporting").
PaneExitSound == \A b \in exited : window[current[b]] = "dead"

\* A bridge whose tasks have both ended: no process, no session, no socket.
Ended(b) ==
    /\ reader[b] = "done"
    /\ writer[b] = "done"
    /\ client[b] = "reaped"
    /\ b \notin links
    /\ socket[b] = "closed"

\* Whatever order the two tasks end in, and whoever killed the link first, a bridge
\* whose tasks are both done leaves no zombie, no linked session, no open socket
\* and no entry in the registry.
NothingLeftBehind ==
    \A b \in Bridges :
        /\ reader[b] = "done" /\ writer[b] = "done" => Ended(b)
        /\ reader[b] = "done" => \A i \in WindowIds : registry[i] # b

\* Whichever half of a bridge loses its peer first (socket closed, tmux client
\* dead, a task finished), the other half ends too and everything is released:
\* the reason for the CancellationToken.
BridgeEnds ==
    \A b \in Bridges :
        (handler[b] = "bridged" /\ (socket[b] = "closed" \/ client[b] = "gone" \/ reader[b] = "done"))
            ~> Ended(b)

\* attach_args takes a tab over: a connection whose link the new request found
\* ends completely, however far it had come.
TakeoverEnds ==
    \A b, l \in Bridges : (l \in stale[b] /\ handler[l] = "bridged") ~> Ended(l)

\* A registered bridge hears of the close of its window that a peer has received,
\* unless that peer ends before it reads it.
PeerReportsClose ==
    \A b, p \in Bridges :
        (/\ reader[b] \in {"select", "verifyClose"}
         /\ registry[WinId[current[b]]] = b
         /\ current[b] \in pty[p].closes
         /\ reader[p] \in {"replay", "select", "verifyClose", "verifyExit"}
         /\ window[current[b]] = "dead")
            ~> (b \in exited \/ socket[b] # "open" \/ reader[p] \in {"cleanup", "done"})

\* The phase a browser can tell a connection to be in.
Phase(b) ==
    IF handler[b] = "refused" THEN "refused"
    ELSE IF handler[b] # "bridged" THEN "idle"
    ELSE IF Ended(b) THEN "closed"
    ELSE IF reader[b] \in {"replay", "select", "verifyClose", "verifyExit"} /\ writer[b] = "recv"
         THEN "open" ELSE "closing"

Connection == INSTANCE TerminalConnection WITH
    Connections <- Bridges,
    phase <- [b \in Bridges |-> Phase(b)],
    paneGone <- {b \in Bridges : current[b] # NoWindow /\ window[current[b]] = "dead"},
    reported <- exited

\* The tasks, the token, the registry and tmux together implement the connection
\* life cycle promised to browsers.
ImplementsConnection == Connection!ConnectionSpec

-----------------------------------------------------------------------------
(***************************************************************************)
(* What comments in the code say, and the code does not do.                *)
(***************************************************************************)

\* "Each WS handler registers its window_id here and waits on the returned Notify;
\* whichever other reader observes the close event calls notify_window_closed(id)":
\* a reader that waits on its Notify, alone on its window, can be reached through
\* the registry.
WaiterIsRegistered ==
    \A b \in Attached \cap links :
        /\ reader[b] = "select"
        /\ \A c \in links : current[c] = current[b] => c = b
        => registry[WinId[current[b]]] = b

\* "the terminal handler kills the linked session when the WebSocket closes": the
\* cleanup of a connection kills the link of no other connection.
OnlyOwnLinkKilled ==
    [][\A b \in Bridges : writer[b] = "kill" /\ writer'[b] = "done" => links \ links' \subseteq {b}]_vars
=============================================================================
