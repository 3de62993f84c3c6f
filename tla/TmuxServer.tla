----------------------------- MODULE TmuxServer -----------------------------
(***************************************************************************)
(* The per-workspace tmux servers as the Rust code uses them.  tmux is not *)
(* part of the repository: this module states what src/src/tmux.rs,        *)
(* src/src/terminal.rs and src/src/tmux_cc.rs rely on.                     *)
(*                                                                         *)
(* Every workspace has a server of its own.  Its main session and the      *)
(* linked sessions made by attach_args form one session group that shares  *)
(* all windows.  A window lives until its shell exits or it is killed, or  *)
(* until the last session of its group is gone.  A linked session is named *)
(* after the connection (bridge) that created it, so the set of live       *)
(* linked sessions is a set of bridges.  A control client (tmux -C attach) *)
(* writes its notifications to its PTY.                                    *)
(*                                                                         *)
(* Window identifiers (@N) are numbered per server: two windows of         *)
(* different workspaces may carry the same identifier.                     *)
(***************************************************************************)
EXTENDS Naturals, FiniteSets

CONSTANTS
    Workspaces,   \* tmux servers, one per workspace
    Tabs,         \* tmux window names
    Windows,      \* windows that may exist over time, each lives at most once
    WindowIds,    \* tmux @N identifiers
    Bridges,      \* terminal connections, one per value of ATTACH_COUNTER
    TabWs,        \* the workspace of a tab
    WinTab,       \* the name a window carries
    WinId,        \* the @N a window carries
    TabOf,        \* the tab a connection asks for
    LongerLink,   \* the connections to the same tab whose number starts with its number
    InitWindows,  \* the windows alive at the start
    ViewersTold,  \* whether a client may be told of the end of the window it shows
    NoWindow      \* not a window

ASSUME TmuxAssumption ==
    /\ TabWs \in [Tabs -> Workspaces]
    /\ WinTab \in [Windows -> Tabs]
    /\ WinId \in [Windows -> WindowIds]
    /\ TabOf \in [Bridges -> Tabs]
    /\ LongerLink \in [Bridges -> SUBSET Bridges]
    /\ InitWindows \subseteq Windows
    /\ ViewersTold \in BOOLEAN
    /\ NoWindow \notin Windows
    /\ \A v, w \in Windows :
          v # w /\ TabWs[WinTab[v]] = TabWs[WinTab[w]] => WinId[v] # WinId[w]

VARIABLES
    main,     \* the workspaces whose main session is alive
    links,    \* the bridges whose linked session is alive
    window,   \* unborn, alive or dead
    current,  \* the window a connection shows: selected in its link, reported to the code
    client,   \* the control client process of a bridge
    pty       \* what that client has written and nobody has read yet

tmuxVars == <<main, links, window, current, client, pty>>

WsOf(b) == TabWs[TabOf[b]]
WinWs(w) == TabWs[WinTab[w]]
Alive == {w \in Windows : window[w] = "alive"}
AliveIn(ws) == {w \in Alive : WinWs(w) = ws}
LinksIn(ws) == {b \in links : WsOf(b) = ws}
Attached == {b \in Bridges : client[b] = "attached"}

\* Unread client output: the windows named by %unlinked-window-close lines, and
\* whether an %exit line follows them.  Nothing follows an %exit.
Output == [closes : SUBSET Windows, exit : BOOLEAN]
Silent == [closes |-> {}, exit |-> FALSE]

ClientStates == {"none", "starting", "attached", "gone", "reaped"}

TmuxTypeOK ==
    /\ main \subseteq Workspaces
    /\ links \subseteq Bridges
    /\ window \in [Windows -> {"unborn", "alive", "dead"}]
    /\ current \in [Bridges -> Windows \cup {NoWindow}]
    /\ client \in [Bridges -> ClientStates]
    /\ pty \in [Bridges -> Output]

TmuxInit ==
    /\ main = {ws \in Workspaces : \E w \in InitWindows : WinWs(w) = ws}
    /\ links = {}
    /\ window = [w \in Windows |-> IF w \in InitWindows THEN "alive" ELSE "unborn"]
    /\ current = [b \in Bridges |-> NoWindow]
    /\ client = [b \in Bridges |-> "none"]
    /\ pty = [b \in Bridges |-> Silent]

-----------------------------------------------------------------------------
(***************************************************************************)
(* What the servers do to clients and windows.                             *)
(***************************************************************************)

\* The sessions shrink to main sessions M and linked sessions L.  A client whose
\* linked session goes away says %exit and terminates; `notes` are the windows
\* whose unlinking each surviving client reports.
Shrink(M, L, notes) ==
    /\ main' = M
    /\ links' = L
    /\ client' = [b \in Bridges |->
                     IF client[b] = "attached" /\ b \notin L THEN "gone" ELSE client[b]]
    /\ pty' = [b \in Bridges |->
                  IF client[b] # "attached" THEN pty[b]
                  ELSE IF b \in L THEN [pty[b] EXCEPT !.closes = @ \cup notes[b]]
                  ELSE [pty[b] EXCEPT !.exit = TRUE]]

\* Windows survive as long as one session of their group does.
DropOrphanedWindows(M, L) ==
    window' = [w \in Windows |->
                 IF window[w] = "alive" /\ WinWs(w) \notin M /\ ~ \E b \in L : WsOf(b) = WinWs(w)
                 THEN "dead" ELSE window[w]]

\* tmux reports the windows of a dying linked session as unlinked to the other
\* clients of the group, although they are still alive in it.  A client is never
\* told so of the window its own session still shows.
SpuriousNotes(ws, reported) ==
    [p \in Bridges |-> IF reported /\ WsOf(p) = ws THEN AliveIn(ws) \ {current[p]} ELSE {}]

\* The session that the name of the link of bridge b resolves to: its own, or, when
\* that is gone, the only one whose name starts with it (ws-1--tab-2-1 and -10).
LinkFound(b) == IF b \in links THEN {b} ELSE {c \in links : links \cap LongerLink[b] = {c}}

\* A linked session is destroyed.
DestroyLink(c) ==
    /\ \E reported \in BOOLEAN :
          Shrink(main, links \ {c}, SpuriousNotes(WsOf(c), reported))
    /\ DropOrphanedWindows(main, links \ {c})

\* kill-session on the link of bridge b; without effect when nothing is found.
KillLink(b) ==
    /\ \/ \E c \in LinkFound(b) : DestroyLink(c)
       \/ LinkFound(b) = {} /\ UNCHANGED <<main, links, client, pty, window>>
    /\ UNCHANGED current

\* A window is destroyed: its shell exited or kill-window named it.  Clients that
\* show another window are told; whether clients that show this one are is up to
\* tmux (tmux_cc.rs: "the pane that actually died never sees its own close").
\* With its last window the whole server goes.
DestroyWindow(w) ==
    /\ window[w] = "alive"
    /\ window' = [window EXCEPT ![w] = "dead"]
    /\ IF AliveIn(WinWs(w)) = {w}
       THEN Shrink(main \ {WinWs(w)}, links \ LinksIn(WinWs(w)), [p \in Bridges |-> {}])
       ELSE \E told \in SUBSET {p \in Attached : ViewersTold /\ current[p] = w} :
              Shrink(main, links,
                     [p \in Bridges |->
                        IF WsOf(p) = WinWs(w) /\ (current[p] # w \/ p \in told)
                        THEN {w} ELSE {}])
    /\ UNCHANGED current

\* new-window in the main session: the name is free, the identifier is fresh.
NewWindow(w) ==
    /\ window[w] = "unborn"
    /\ WinWs(w) \in main
    /\ \A v \in Alive : WinTab[v] # WinTab[w]
    /\ window' = [window EXCEPT ![w] = "alive"]
    /\ UNCHANGED <<main, links, current, client, pty>>

\* kill-session -t ws-N (delete_workspace, recreate_workspace): the linked sessions
\* keep the group and its windows alive.  Without a main session the name matches as
\* a prefix, and the only linked session is killed.
KillMain(ws) ==
    \/ /\ ws \in main
       /\ main' = main \ {ws}
       /\ DropOrphanedWindows(main \ {ws}, links)
       /\ UNCHANGED <<links, current, client, pty>>
    \/ /\ ws \notin main
       /\ \E b \in Bridges : LinksIn(ws) = {b} /\ KillLink(b)

\* The server dies under its clients; a client may or may not get to say %exit.
ServerCrash(ws) ==
    /\ AliveIn(ws) # {}
    /\ main' = main \ {ws}
    /\ links' = links \ LinksIn(ws)
    /\ window' = [w \in Windows |-> IF w \in AliveIn(ws) THEN "dead" ELSE window[w]]
    /\ client' = [b \in Bridges |->
                     IF client[b] = "attached" /\ WsOf(b) = ws THEN "gone" ELSE client[b]]
    /\ \E says \in SUBSET {b \in Attached : WsOf(b) = ws} :
          pty' = [b \in Bridges |-> IF b \in says THEN [pty[b] EXCEPT !.exit = TRUE] ELSE pty[b]]
    /\ UNCHANGED current

\* The spawned `tmux -C attach -t <link>` reaches its server.
ClientAttach(b) ==
    /\ client[b] = "starting"
    /\ client' = [client EXCEPT ![b] = IF b \in links THEN "attached" ELSE "gone"]
    /\ UNCHANGED <<main, links, window, current, pty>>

\* A client ends on SIGHUP; its linked session outlives it.
ClientHup(b) ==
    /\ client[b] \in {"starting", "attached"}
    /\ client' = [client EXCEPT ![b] = "gone"]
    /\ UNCHANGED <<main, links, window, current, pty>>
=============================================================================
