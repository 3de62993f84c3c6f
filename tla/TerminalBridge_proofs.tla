----------------------- MODULE TerminalBridge_proofs -----------------------
(***************************************************************************)
(* Type correctness, PaneExitSound and NothingLeftBehind of TerminalBridge *)
(* for every set of workspaces, tabs, windows and connections.             *)
(***************************************************************************)
EXTENDS TerminalBridge, TLAPS

\* A handler hands over to the two tasks once; a client exists only from then on.
Life ==
    \A b \in Bridges :
        /\ handler[b] # "bridged" => reader[b] = "none" /\ writer[b] = "none" /\ client[b] = "none"
        /\ handler[b] # "bridged" => b \notin exited /\ pty[b].closes = {}
        /\ handler[b] \in {"ready", "bridged"} => current[b] \in Windows

\* What a connection shows is a window of its workspace that has been alive.
Shown ==
    \A b \in Bridges :
        current[b] \in Windows =>
            WinWs(current[b]) = WsOf(b) /\ window[current[b]] # "unborn"

\* A client hears only of windows of its server, and of its own only when it is dead.
Heard ==
    \A b \in Bridges :
        /\ \A w \in pty[b].closes : WinWs(w) = WsOf(b) /\ window[w] # "unborn"
        /\ current[b] \in pty[b].closes => window[current[b]] = "dead"

\* How far the writer is with releasing what the connection holds.
Released ==
    \A b \in Bridges :
        /\ writer[b] \in {"kill", "done"} => client[b] = "reaped"
        /\ writer[b] = "done" => b \notin links /\ socket[b] = "closed"

\* Unless tasks panic, only a reader inside its loop is registered, under the id of
\* its window.
Registered ==
    ~DbPoisoned =>
        \A b \in Bridges, i \in WindowIds :
            registry[i] = b =>
                /\ i = WinId[current[b]]
                /\ reader[b] \in {"select", "verifyClose", "verifyExit", "cleanup"}

-----------------------------------------------------------------------------
(***************************************************************************)
(* Type correctness.                                                       *)
(***************************************************************************)

\* Sessions, clients and unread output stay well typed when sessions go.
LEMMA ShrinkType ==
    ASSUME TmuxTypeOK,
           NEW M \in SUBSET Workspaces, NEW L \in SUBSET Bridges,
           NEW notes \in [Bridges -> SUBSET Windows],
           Shrink(M, L, notes)
    PROVE  /\ main' \subseteq Workspaces
           /\ links' \subseteq Bridges
           /\ client' \in [Bridges -> ClientStates]
           /\ pty' \in [Bridges -> Output]
<1>1. main' \subseteq Workspaces /\ links' \subseteq Bridges
  BY DEF Shrink
<1>2. client' \in [Bridges -> ClientStates]
  BY DEF Shrink, TmuxTypeOK, ClientStates
<1>3. pty' \in [Bridges -> Output]
  <2>1. ASSUME NEW b \in Bridges
        PROVE  /\ pty[b] \in Output
               /\ [pty[b] EXCEPT !.closes = @ \cup notes[b]] \in Output
               /\ [pty[b] EXCEPT !.exit = TRUE] \in Output
    BY DEF TmuxTypeOK, Output
  <2> QED
    BY <2>1 DEF Shrink
<1> QED
  BY <1>1, <1>2, <1>3

LEMMA DestroyLinkType ==
    ASSUME TmuxTypeOK, NEW c \in Bridges, DestroyLink(c), current' = current
    PROVE  TmuxTypeOK'
<1>1. PICK reported \in BOOLEAN : Shrink(main, links \ {c}, SpuriousNotes(WsOf(c), reported))
  BY DEF DestroyLink
<1>2. SpuriousNotes(WsOf(c), reported) \in [Bridges -> SUBSET Windows]
  BY DEF SpuriousNotes, AliveIn, Alive
<1>3. main \in SUBSET Workspaces /\ links \ {c} \in SUBSET Bridges
  BY DEF TmuxTypeOK
<1>4. window' \in [Windows -> {"unborn", "alive", "dead"}]
  BY DEF DestroyLink, DropOrphanedWindows, TmuxTypeOK
<1> QED
  BY <1>1, <1>2, <1>3, <1>4, ShrinkType DEF TmuxTypeOK

\* kill-session destroys one linked session or does nothing.
LEMMA KillLinkCases ==
    ASSUME TmuxTypeOK, NEW b \in Bridges, KillLink(b)
    PROVE  /\ current' = current
           /\ \/ \E c \in Bridges : DestroyLink(c) /\ (b \in links => c = b)
              \/ b \notin links /\ UNCHANGED <<main, links, client, pty, window>>
<1>1. CASE \E c \in LinkFound(b) : DestroyLink(c)
  <2>1. LinkFound(b) \subseteq Bridges /\ (b \in links => LinkFound(b) = {b})
    BY DEF LinkFound, TmuxTypeOK
  <2> QED
    BY <1>1, <2>1 DEF KillLink
<1>2. CASE LinkFound(b) = {} /\ UNCHANGED <<main, links, client, pty, window>>
  <2>1. b \notin links
    BY <1>2 DEF LinkFound
  <2> QED
    BY <1>2, <2>1 DEF KillLink
<1> QED
  BY <1>1, <1>2 DEF KillLink

LEMMA KillLinkType ==
    ASSUME TmuxTypeOK, NEW b \in Bridges, KillLink(b)
    PROVE  TmuxTypeOK'
<1>1. ASSUME NEW c \in Bridges, DestroyLink(c), current' = current
      PROVE  TmuxTypeOK'
  BY <1>1, DestroyLinkType
<1>2. CASE UNCHANGED <<main, links, client, pty, window, current>>
  BY <1>2 DEF TmuxTypeOK
<1> QED
  BY <1>1, <1>2, KillLinkCases

LEMMA DestroyWindowType ==
    ASSUME TmuxTypeOK, NEW w \in Windows, DestroyWindow(w)
    PROVE  TmuxTypeOK'
<1>1. window' \in [Windows -> {"unborn", "alive", "dead"}] /\ current' = current
  BY DEF DestroyWindow, TmuxTypeOK
<1>2. PICK M \in SUBSET Workspaces, L \in SUBSET Bridges, notes \in [Bridges -> SUBSET Windows] :
         Shrink(M, L, notes)
  <2>1. CASE AliveIn(WinWs(w)) = {w}
    <3>1. Shrink(main \ {WinWs(w)}, links \ LinksIn(WinWs(w)), [p \in Bridges |-> {}])
      BY <2>1 DEF DestroyWindow
    <3> QED
      BY <3>1 DEF TmuxTypeOK
  <2>2. CASE AliveIn(WinWs(w)) # {w}
    <3>1. PICK told \in SUBSET {p \in Attached : ViewersTold /\ current[p] = w} :
             Shrink(main, links,
                    [p \in Bridges |->
                       IF WsOf(p) = WinWs(w) /\ (current[p] # w \/ p \in told)
                       THEN {w} ELSE {}])
      BY <2>2 DEF DestroyWindow
    <3> QED
      BY <3>1 DEF TmuxTypeOK
  <2> QED
    BY <2>1, <2>2
<1> QED
  BY <1>1, <1>2, ShrinkType DEF TmuxTypeOK

LEMMA KillMainType ==
    ASSUME TmuxTypeOK, NEW s \in Workspaces, KillMain(s)
    PROVE  TmuxTypeOK'
<1>1. CASE s \in main
  BY <1>1 DEF KillMain, DropOrphanedWindows, TmuxTypeOK
<1>2. CASE s \notin main
  BY <1>2, KillLinkType DEF KillMain
<1> QED
  BY <1>1, <1>2

LEMMA ServerCrashType ==
    ASSUME TmuxTypeOK, NEW s \in Workspaces, ServerCrash(s)
    PROVE  TmuxTypeOK'
<1>1. pty' \in [Bridges -> Output]
  <2>1. ASSUME NEW b \in Bridges
        PROVE  pty[b] \in Output /\ [pty[b] EXCEPT !.exit = TRUE] \in Output
    BY DEF TmuxTypeOK, Output
  <2> QED
    BY <2>1 DEF ServerCrash
<1> QED
  BY <1>1 DEF ServerCrash, TmuxTypeOK, ClientStates

LEMMA TypeStep == TypeOK /\ [Next]_vars => TypeOK'
<1> SUFFICES ASSUME TypeOK, [Next]_vars PROVE TypeOK'
  OBVIOUS
<1>1. CASE UNCHANGED vars
  BY <1>1 DEF vars, tmuxVars, bridgeVars, TypeOK, TmuxTypeOK
<1>2. ASSUME NEW b \in Bridges, Check(b) \/ Handler(b)
      PROVE  TypeOK'
  <2>1. CASE Check(b)
    BY <2>1 DEF Check, HandlerStep, HandlerStates, tmuxVars, TypeOK, TmuxTypeOK
  <2>2. CASE ListStale(b)
    BY <2>2 DEF ListStale, HandlerStep, HandlerStates, tmuxVars, TypeOK, TmuxTypeOK
  <2>3. CASE \E l \in Bridges : KillStale(b, l)
    <3>1. PICK l \in Bridges : KillStale(b, l)
      BY <2>3
    <3>2. TmuxTypeOK'
      BY <3>1, KillLinkType DEF KillStale, TypeOK
    <3> QED
      BY <3>1, <3>2 DEF KillStale, TypeOK
  <2>4. CASE CreateLink(b)
    BY <2>4 DEF CreateLink, HandlerStep, HandlerStates, TypeOK, TmuxTypeOK
  <2>5. CASE SelectAndQuery(b)
    BY <2>5 DEF SelectAndQuery, Target, Alive, HandlerStep, HandlerStates, TypeOK, TmuxTypeOK
  <2>6. CASE StartBridge(b)
    BY <2>6 DEF StartBridge, HandlerStep, HandlerStates, ReaderStates, WriterStates, ClientStates, TypeOK, TmuxTypeOK
  <2>7. CASE StartFails(b)
    BY <2>7 DEF StartFails, HandlerStep, HandlerStates, tmuxVars, TypeOK, TmuxTypeOK
  <2> QED
    BY <1>2, <2>1, <2>2, <2>3, <2>4, <2>5, <2>6, <2>7 DEF Handler
<1>3. ASSUME NEW b \in Bridges, Reader(b)
      PROVE  TypeOK'
  <2>1. CASE Register(b)
    BY <2>1 DEF Register, ReaderStep, ReaderStates, tmuxVars, TypeOK, TmuxTypeOK
  <2>2. CASE ReplayFails(b)
    BY <2>2 DEF ReplayFails, ReaderStep, ReaderStates, tmuxVars, TypeOK, TmuxTypeOK
  <2>3. CASE ReaderCancelled(b)
    BY <2>3 DEF ReaderCancelled, ReaderStep, ReaderStates, tmuxVars, TypeOK, TmuxTypeOK
  <2>4. CASE ReaderSendFails(b)
    BY <2>4 DEF ReaderSendFails, ReaderStep, ReaderStates, tmuxVars, TypeOK, TmuxTypeOK
  <2>5. CASE ReaderEof(b) \/ ReaderPanics(b)
    BY <2>5 DEF ReaderEof, ReaderPanics, ReaderStep, ReaderStates, tmuxVars, TypeOK, TmuxTypeOK
  <2>6. CASE OwnCloseNotified(b)
    BY <2>6 DEF OwnCloseNotified, ReaderStep, ReaderStates, tmuxVars, TypeOK, TmuxTypeOK
  <2>7. CASE \E w \in Windows : OtherWindowClosed(b, w)
    BY <2>7 DEF OtherWindowClosed, NotifyWindowClosed, Output, ReaderStep, ReaderStates, TypeOK, TmuxTypeOK
  <2>8. CASE WindowClosed(b)
    BY <2>8 DEF WindowClosed, SendPaneExit, ReaderStep, ReaderStates, tmuxVars, TypeOK, TmuxTypeOK
  <2>9. CASE ExitSeen(b)
    BY <2>9 DEF ExitSeen, Output, ReaderStep, ReaderStates, TypeOK, TmuxTypeOK
  <2>10. CASE VerifyClose(b)
    BY <2>10 DEF VerifyClose, SendPaneExit, ReaderStep, ReaderStates, tmuxVars, TypeOK, TmuxTypeOK
  <2>11. CASE VerifyExit(b)
    BY <2>11 DEF VerifyExit, SendPaneExit, ReaderStep, ReaderStates, tmuxVars, TypeOK, TmuxTypeOK
  <2>12. CASE ReaderCleanup(b)
    BY <2>12 DEF ReaderCleanup, Unregistered, CancelToken, ReaderStep, ReaderStates, tmuxVars, TypeOK, TmuxTypeOK
  <2> QED
    BY <1>3, <2>1, <2>2, <2>3, <2>4, <2>5, <2>6, <2>7, <2>8, <2>9, <2>10, <2>11, <2>12 DEF Reader
<1>4. ASSUME NEW b \in Bridges, Writer(b) \/ Client(b) \/ BrowserCloses(b) \/ InputFails(b)
      PROVE  TypeOK'
  <2>1. CASE WriterBreak(b)
    BY <2>1 DEF WriterBreak, WriterStep, WriterStates, tmuxVars, TypeOK, TmuxTypeOK
  <2>2. CASE WriterReap(b)
    BY <2>2 DEF WriterReap, ClientStates, WriterStep, WriterStates, TypeOK, TmuxTypeOK
  <2>3. CASE WriterCleanup(b)
    <3>1. TmuxTypeOK'
      BY <2>3, KillLinkType DEF WriterCleanup, TypeOK
    <3> QED
      BY <2>3, <3>1 DEF WriterCleanup, CancelToken, WriterStep, WriterStates, TypeOK
  <2>4. CASE ClientStarts(b)
    BY <2>4 DEF ClientStarts, ClientAttach, ClientStates, bridgeVars, TypeOK, TmuxTypeOK
  <2>5. CASE ClientEnds(b)
    BY <2>5 DEF ClientEnds, ClientHup, ClientStates, bridgeVars, TypeOK, TmuxTypeOK
  <2>6. CASE BrowserCloses(b)
    BY <2>6 DEF BrowserCloses, tmuxVars, TypeOK, TmuxTypeOK
  <2>7. CASE InputFails(b)
    BY <2>7 DEF InputFails, WriterStep, WriterStates, tmuxVars, TypeOK, TmuxTypeOK
  <2> QED
    BY <1>4, <2>1, <2>2, <2>3, <2>4, <2>5, <2>6, <2>7 DEF Writer, Client
<1>5. ASSUME NEW w \in Windows, ShellExits(w)
      PROVE  TypeOK'
  <2>1. TmuxTypeOK'
    BY <1>5, DestroyWindowType DEF ShellExits, TypeOK
  <2> QED
    BY <1>5, <2>1 DEF ShellExits, bridgeVars, TypeOK
<1>6. ASSUME NEW w \in Windows, RecreateTab(w)
      PROVE  TypeOK'
  BY <1>6 DEF RecreateTab, NewWindow, bridgeVars, TypeOK, TmuxTypeOK
<1>7. ASSUME NEW s \in Workspaces, DeleteWorkspace(s)
      PROVE  TypeOK'
  <2>1. TmuxTypeOK'
    BY <1>7, KillMainType DEF DeleteWorkspace, TypeOK
  <2> QED
    BY <1>7, <2>1 DEF DeleteWorkspace, bridgeVars, TypeOK
<1>8. ASSUME NEW s \in Workspaces, Crash(s)
      PROVE  TypeOK'
  <2>1. TmuxTypeOK'
    BY <1>8, ServerCrashType DEF Crash, TypeOK
  <2> QED
    BY <1>8, <2>1 DEF Crash, bridgeVars, TypeOK
<1> QED
  BY <1>1, <1>2, <1>3, <1>4, <1>5, <1>6, <1>7, <1>8 DEF Next, Environment

LEMMA TypeInit == Init => TypeOK
  BY TmuxAssumption, BridgeAssumption
     DEF Init, TmuxInit, TypeOK, TmuxTypeOK, HandlerStates, ReaderStates, WriterStates,
         ClientStates, Output, Silent

\* Every reachable state is well typed: the tasks, the token, the registry and the
\* clients of any number of connections.
THEOREM TypeCorrect == Spec => []TypeOK
  BY TypeInit, TypeStep, PTL DEF Spec

-----------------------------------------------------------------------------
(***************************************************************************)
(* What a tmux server does by itself or at the request of another handler. *)
(***************************************************************************)

\* Nothing comes back, and only attached clients are affected.
TmuxMoves ==
    /\ current' = current
    /\ links' \subseteq links
    /\ \A w \in Windows : window[w] = "dead" => window'[w] = "dead"
    /\ \A w \in Windows : window[w] # "unborn" => window'[w] # "unborn"
    /\ \A b \in Bridges : client[b] # "attached" => client'[b] = client[b] /\ pty'[b] = pty[b]

\* New lines in a client's output do not disturb Heard if they are truthful.
LEMMA ShrinkHeard ==
    ASSUME TmuxTypeOK, Heard, TmuxMoves,
           NEW M \in SUBSET Workspaces, NEW L \in SUBSET Bridges,
           NEW notes \in [Bridges -> SUBSET Windows],
           Shrink(M, L, notes),
           \A b \in Bridges :
              /\ \A w \in notes[b] : WinWs(w) = WsOf(b) /\ window'[w] # "unborn"
              /\ current[b] \in notes[b] => window'[current[b]] = "dead"
    PROVE  Heard'
<1> SUFFICES ASSUME NEW b \in Bridges
             PROVE  /\ \A w \in pty'[b].closes : WinWs(w) = WsOf(b) /\ window'[w] # "unborn"
                    /\ current'[b] \in pty'[b].closes => window'[current'[b]] = "dead"
  BY DEF Heard, WinWs, WsOf
<1>1. pty'[b].closes \subseteq pty[b].closes \cup notes[b] /\ pty[b].closes \subseteq Windows
  BY DEF Shrink, TmuxTypeOK, Output
<1> QED
  BY <1>1 DEF Heard, TmuxMoves

LEMMA DestroyLinkMoves ==
    ASSUME TmuxTypeOK, Heard, NEW c \in Bridges, DestroyLink(c), current' = current
    PROVE  TmuxMoves /\ Heard' /\ links' = links \ {c}
<1>1. PICK reported \in BOOLEAN : Shrink(main, links \ {c}, SpuriousNotes(WsOf(c), reported))
  BY DEF DestroyLink
<1>2. TmuxMoves
  BY <1>1 DEF DestroyLink, Shrink, DropOrphanedWindows, TmuxMoves, TmuxTypeOK
<1>3. SpuriousNotes(WsOf(c), reported) \in [Bridges -> SUBSET Windows]
  BY DEF SpuriousNotes, AliveIn, Alive
<1>4. main \in SUBSET Workspaces /\ links \ {c} \in SUBSET Bridges
  BY DEF TmuxTypeOK
<1>5. ASSUME NEW p \in Bridges
      PROVE  /\ \A w \in SpuriousNotes(WsOf(c), reported)[p] :
                   w \in Windows /\ WinWs(w) = WsOf(p) /\ window[w] # "unborn"
             /\ current[p] \notin SpuriousNotes(WsOf(c), reported)[p]
  BY DEF SpuriousNotes, AliveIn, Alive
<1>6. Heard'
  BY <1>1, <1>2, <1>3, <1>4, <1>5, ShrinkHeard DEF TmuxMoves
<1> QED
  BY <1>1, <1>2, <1>6 DEF Shrink

LEMMA KillLinkMoves ==
    ASSUME TmuxTypeOK, Heard, NEW b \in Bridges, KillLink(b)
    PROVE  TmuxMoves /\ Heard' /\ b \notin links'
<1>1. ASSUME NEW c \in Bridges, DestroyLink(c), current' = current, b \in links => c = b
      PROVE  TmuxMoves /\ Heard' /\ b \notin links'
  BY <1>1, DestroyLinkMoves
<1>2. CASE UNCHANGED <<main, links, client, pty, window, current>> /\ b \notin links
  BY <1>2 DEF TmuxMoves, Heard, WinWs, WsOf
<1> QED
  BY <1>1, <1>2, KillLinkCases

LEMMA DestroyWindowMoves ==
    ASSUME TmuxTypeOK, Heard, NEW w \in Windows, DestroyWindow(w)
    PROVE  TmuxMoves /\ Heard'
<1>1. current' = current /\ window' = [window EXCEPT ![w] = "dead"]
  BY DEF DestroyWindow
<1>2. PICK M \in SUBSET Workspaces, L \in SUBSET Bridges, notes \in [Bridges -> SUBSET Windows] :
         /\ Shrink(M, L, notes)
         /\ L \subseteq links
         /\ \A b \in Bridges : notes[b] = {} \/ (notes[b] = {w} /\ WinWs(w) = WsOf(b))
  <2>1. CASE AliveIn(WinWs(w)) = {w}
    <3>1. Shrink(main \ {WinWs(w)}, links \ LinksIn(WinWs(w)), [p \in Bridges |-> {}])
      BY <2>1 DEF DestroyWindow
    <3> QED
      BY <3>1 DEF TmuxTypeOK
  <2>2. CASE AliveIn(WinWs(w)) # {w}
    <3>1. PICK told \in SUBSET {p \in Attached : ViewersTold /\ current[p] = w} :
             Shrink(main, links,
                    [p \in Bridges |->
                       IF WsOf(p) = WinWs(w) /\ (current[p] # w \/ p \in told)
                       THEN {w} ELSE {}])
      BY <2>2 DEF DestroyWindow
    <3> QED
      BY <3>1 DEF TmuxTypeOK
  <2> QED
    BY <2>1, <2>2
<1>3. TmuxMoves
  BY <1>1, <1>2 DEF Shrink, TmuxMoves, TmuxTypeOK
<1>4. \A b \in Bridges :
         /\ \A v \in notes[b] : WinWs(v) = WsOf(b) /\ window'[v] # "unborn"
         /\ current[b] \in notes[b] => window'[current[b]] = "dead"
  BY <1>1, <1>2 DEF TmuxTypeOK
<1> QED
  BY <1>2, <1>3, <1>4, ShrinkHeard

LEMMA KillMainMoves ==
    ASSUME TmuxTypeOK, Heard, NEW s \in Workspaces, KillMain(s)
    PROVE  TmuxMoves /\ Heard'
<1>1. CASE s \in main
  <2>1. TmuxMoves /\ pty' = pty
    BY <1>1 DEF KillMain, DropOrphanedWindows, TmuxMoves, TmuxTypeOK
  <2>2. \A b \in Bridges : pty[b].closes \subseteq Windows
    BY DEF TmuxTypeOK, Output
  <2> QED
    BY <2>1, <2>2 DEF Heard, TmuxMoves, WinWs, WsOf
<1>2. CASE s \notin main
  BY <1>2, KillLinkMoves DEF KillMain
<1> QED
  BY <1>1, <1>2

LEMMA ServerCrashMoves ==
    ASSUME TmuxTypeOK, Heard, NEW s \in Workspaces, ServerCrash(s)
    PROVE  TmuxMoves /\ Heard'
<1>1. TmuxMoves
  BY DEF ServerCrash, TmuxMoves, TmuxTypeOK, Attached, Alive, AliveIn
<1>2. \A b \in Bridges : pty'[b].closes = pty[b].closes /\ pty[b].closes \subseteq Windows
  BY DEF ServerCrash, TmuxTypeOK, Output
<1> QED
  BY <1>1, <1>2 DEF Heard, TmuxMoves, WinWs, WsOf

-----------------------------------------------------------------------------
(***************************************************************************)
(* The inductive invariant.                                                *)
(***************************************************************************)

Inv == Life /\ Shown /\ Heard /\ Released /\ Registered

\* The steps in which only tmux moves: a link is killed by a later request, a shell
\* exits, a session is killed, a server crashes.
TmuxOnly ==
    \/ \E b, l \in Bridges : KillStale(b, l)
    \/ \E w \in Windows : ShellExits(w)
    \/ \E s \in Workspaces : DeleteWorkspace(s) \/ Crash(s)

LEMMA TmuxOnlyMoves ==
    ASSUME TmuxTypeOK, Heard, TmuxOnly
    PROVE  /\ TmuxMoves
           /\ Heard'
           /\ UNCHANGED <<handler, reader, writer, cancelled, socket, registry, permit, exited>>
<1>1. ASSUME NEW b \in Bridges, NEW l \in Bridges, KillStale(b, l)
      PROVE  /\ TmuxMoves
             /\ Heard'
             /\ UNCHANGED <<handler, reader, writer, cancelled, socket, registry, permit, exited>>
  BY <1>1, KillLinkMoves DEF KillStale
<1>2. ASSUME NEW w \in Windows, ShellExits(w)
      PROVE  TmuxMoves /\ Heard' /\ UNCHANGED bridgeVars
  BY <1>2, DestroyWindowMoves DEF ShellExits
<1>3. ASSUME NEW s \in Workspaces, DeleteWorkspace(s)
      PROVE  TmuxMoves /\ Heard' /\ UNCHANGED bridgeVars
  BY <1>3, KillMainMoves DEF DeleteWorkspace
<1>4. ASSUME NEW s \in Workspaces, Crash(s)
      PROVE  TmuxMoves /\ Heard' /\ UNCHANGED bridgeVars
  BY <1>4, ServerCrashMoves DEF Crash
<1> QED
  BY <1>1, <1>2, <1>3, <1>4 DEF TmuxOnly, bridgeVars

LEMMA InvTmuxOnly == TypeOK /\ Inv /\ TmuxOnly => Inv'
<1> SUFFICES ASSUME TypeOK, Inv, TmuxOnly PROVE Inv'
  OBVIOUS
<1>1. /\ TmuxMoves /\ Heard'
      /\ UNCHANGED <<handler, reader, writer, cancelled, socket, registry, permit, exited>>
  BY TmuxOnlyMoves DEF TypeOK, Inv
<1>2. Life'
  BY <1>1 DEF Inv, Life, TmuxMoves
<1>3. Shown'
  BY <1>1 DEF Inv, Shown, TmuxMoves, WinWs, WsOf
<1>4. Released'
  BY <1>1 DEF Inv, Released, TmuxMoves
<1>5. Registered'
  BY <1>1 DEF Inv, Registered, TmuxMoves
<1> QED
  BY <1>1, <1>2, <1>3, <1>4, <1>5 DEF Inv

LEMMA InvHandler ==
    ASSUME TypeOK, Inv, NEW b \in Bridges,
           Check(b) \/ ListStale(b) \/ CreateLink(b) 
           \/ SelectAndQuery(b) \/ StartBridge(b) \/ StartFails(b)
    PROVE  Inv'
<1> USE DEF HandlerStep
<1>1. Life'
  <2>1. \A w \in Target(b) : w \in Windows
    BY DEF Target, Alive
  <2> QED
    BY <2>1 DEF Check, ListStale, CreateLink, SelectAndQuery, StartBridge, StartFails, HandlerStep, tmuxVars, Inv, Life, TypeOK, TmuxTypeOK
<1>2. Shown'
  <2>1. \A w \in Target(b) : w \in Windows /\ WinWs(w) = WsOf(b) /\ window[w] # "unborn"
    BY DEF Target, Alive, WinWs, WsOf
  <2> QED
    BY <2>1 DEF Check, ListStale, CreateLink, SelectAndQuery, StartBridge, StartFails, HandlerStep, tmuxVars, Inv, Shown, TypeOK, TmuxTypeOK, WinWs, WsOf
<1>3. Heard'
  <2>1. pty' = pty /\ window' = window
    BY DEF Check, ListStale, CreateLink, SelectAndQuery, StartBridge, StartFails, HandlerStep, tmuxVars
  <2>2. \A p \in Bridges : pty[p].closes # {} => current'[p] = current[p]
    BY DEF Check, ListStale, CreateLink, SelectAndQuery, StartBridge, StartFails, HandlerStep, tmuxVars, Inv, Life, TypeOK, TmuxTypeOK
  <2> QED
    BY <2>1, <2>2 DEF Inv, Heard, WinWs, WsOf
<1>4. Released'
  BY DEF Check, ListStale, CreateLink, SelectAndQuery, StartBridge, StartFails, HandlerStep, tmuxVars, Inv, Life, Released, TypeOK, TmuxTypeOK
<1>5. Registered'
  <2>1. registry' = registry
    BY DEF Check, ListStale, CreateLink, SelectAndQuery, StartBridge, StartFails, HandlerStep
  <2>2. \A p \in Bridges : reader[p] # "none" => current'[p] = current[p] /\ reader'[p] = reader[p]
    BY DEF Check, ListStale, CreateLink, SelectAndQuery, StartBridge, StartFails, HandlerStep, tmuxVars, Inv, Life, TypeOK, TmuxTypeOK
  <2> QED
    BY <2>1, <2>2 DEF Inv, Registered
<1> QED
  BY <1>1, <1>2, <1>3, <1>4, <1>5 DEF Inv

LEMMA InvReader ==
    ASSUME TypeOK, Inv, NEW b \in Bridges, Reader(b)
    PROVE  Inv'
<1>1. /\ reader[b] # "none" /\ handler' = handler /\ writer' = writer /\ client' = client
      /\ links' = links /\ current' = current /\ window' = window
      /\ \A p \in Bridges : p # b => reader'[p] = reader[p]
      /\ \A p \in Bridges : pty'[p].closes \subseteq pty[p].closes
      /\ \A p \in Bridges : socket[p] = "closed" => socket'[p] = "closed"
      /\ exited' \subseteq exited \cup {b}
  BY DEF Reader, Register, ReplayFails, ReaderCancelled, ReaderSendFails, ReaderEof,
         ReaderPanics, OwnCloseNotified, OtherWindowClosed, WindowClosed, ExitSeen, VerifyClose, VerifyExit,
         ReaderCleanup, ReaderStep, SendPaneExit, tmuxVars, TypeOK, TmuxTypeOK, Output
<1>2. handler[b] = "bridged"
  BY <1>1 DEF Inv, Life
<1>3. Life'
  BY <1>1, <1>2 DEF Inv, Life
<1>4. Shown'
  BY <1>1 DEF Inv, Shown, WinWs, WsOf
<1>5. Heard'
  BY <1>1 DEF Inv, Heard, WinWs, WsOf
<1>6. Released'
  BY <1>1 DEF Inv, Released
<1>7. Registered'
  <2>1. CASE Register(b)
    BY <2>1, <1>1, BridgeAssumption DEF Register, ReaderStep, Inv, Registered, TypeOK
  <2>2. CASE ReaderCleanup(b)
    BY <2>2, <1>1, BridgeAssumption
       DEF ReaderCleanup, Unregistered, ReaderStep, Inv, Registered, TypeOK
  <2>3. CASE ~Register(b) /\ ~ReaderCleanup(b)
    <3>1. registry' = registry
      BY <2>3 DEF Reader, Register, ReplayFails, ReaderCancelled, ReaderSendFails, ReaderEof,
         ReaderPanics, OwnCloseNotified, OtherWindowClosed, WindowClosed, ExitSeen, VerifyClose, VerifyExit,
         ReaderCleanup, ReaderStep, SendPaneExit
    <3>2. ~DbPoisoned /\ reader[b] \in {"select", "verifyClose", "verifyExit", "cleanup"} =>
             reader'[b] \in {"select", "verifyClose", "verifyExit", "cleanup"}
      BY <2>3 DEF Reader, Register, ReplayFails, ReaderCancelled, ReaderSendFails, ReaderEof,
         ReaderPanics, OwnCloseNotified, OtherWindowClosed, WindowClosed, ExitSeen, VerifyClose, VerifyExit,
         ReaderCleanup, ReaderStep, SendPaneExit, TypeOK
    <3> QED
      BY <3>1, <3>2, <1>1 DEF Inv, Registered
  <2> QED
    BY <2>1, <2>2, <2>3
<1> QED
  BY <1>3, <1>4, <1>5, <1>6, <1>7 DEF Inv

LEMMA InvWriterCleanup ==
    ASSUME TypeOK, Inv, NEW b \in Bridges, WriterCleanup(b)
    PROVE  Inv'
<1>1. TmuxMoves /\ Heard' /\ b \notin links'
  BY KillLinkMoves DEF WriterCleanup, TypeOK, Inv
<1>2. /\ writer[b] = "kill" /\ writer' = [writer EXCEPT ![b] = "done"]
      /\ socket' = [socket EXCEPT ![b] = "closed"]
      /\ UNCHANGED <<handler, stale, reader, registry, permit, exited>>
  BY DEF WriterCleanup, WriterStep
<1>3. Life'
  BY <1>1, <1>2 DEF Inv, Life, TmuxMoves, TypeOK
<1>4. Shown'
  BY <1>1 DEF Inv, Shown, TmuxMoves, WinWs, WsOf
<1>5. Released'
  BY <1>1, <1>2 DEF Inv, Released, TmuxMoves, TypeOK
<1>6. Registered'
  BY <1>1, <1>2 DEF Inv, Registered, TmuxMoves
<1> QED
  BY <1>1, <1>3, <1>4, <1>5, <1>6 DEF Inv

LEMMA InvWriterClient ==
    ASSUME TypeOK, Inv, NEW b \in Bridges,
           WriterBreak(b) \/ WriterReap(b) \/ Client(b) \/ BrowserCloses(b) \/ InputFails(b)
    PROVE  Inv'
<1>1. /\ UNCHANGED <<handler, reader, registry, exited, links, current, window, pty>>
      /\ \A p \in Bridges : p # b => writer'[p] = writer[p] /\ client'[p] = client[p]
      /\ writer'[b] = writer[b] \/ (writer[b] = "recv" /\ writer'[b] = "wait")
           \/ (writer[b] = "wait" /\ writer'[b] = "kill" /\ client'[b] = "reaped")
      /\ client'[b] = client[b] \/ client[b] \notin {"none", "reaped"}
      /\ \A p \in Bridges : socket[p] = "closed" => socket'[p] = "closed"
  BY DEF WriterBreak, WriterReap, InputFails, WriterStep, Client, ClientStarts, ClientAttach,
         ClientEnds, ClientHup, BrowserCloses, bridgeVars, tmuxVars, TypeOK, TmuxTypeOK
<1>2. Life'
  BY <1>1 DEF Inv, Life
<1>3. Shown'
  BY <1>1 DEF Inv, Shown, WinWs, WsOf
<1>4. Heard'
  BY <1>1 DEF Inv, Heard, WinWs, WsOf
<1>5. Released'
  BY <1>1 DEF Inv, Released
<1>6. Registered'
  BY <1>1 DEF Inv, Registered
<1> QED
  BY <1>2, <1>3, <1>4, <1>5, <1>6 DEF Inv

\* A new window: nobody shows or has heard of it yet.
LEMMA InvRecreateTab ==
    ASSUME TypeOK, Inv, NEW w \in Windows, RecreateTab(w)
    PROVE  Inv'
<1>1. /\ window[w] = "unborn" /\ window' = [window EXCEPT ![w] = "alive"]
      /\ UNCHANGED <<main, links, current, client, pty>> /\ UNCHANGED bridgeVars
  BY DEF RecreateTab, NewWindow
<1>2. Life' /\ Released' /\ Registered'
  BY <1>1 DEF Inv, Life, Released, Registered, bridgeVars
<1>3. Shown'
  BY <1>1 DEF Inv, Shown, WinWs, WsOf, TypeOK, TmuxTypeOK
<1>4. Heard'
  <2>1. \A b \in Bridges : pty[b].closes \subseteq Windows
    BY DEF TypeOK, TmuxTypeOK, Output
  <2> QED
    BY <1>1, <2>1 DEF Inv, Heard, WinWs, WsOf, TypeOK, TmuxTypeOK
<1> QED
  BY <1>2, <1>3, <1>4 DEF Inv

LEMMA InvStep == TypeOK /\ Inv /\ [Next]_vars => Inv'
<1> SUFFICES ASSUME TypeOK, Inv, [Next]_vars PROVE Inv'
  OBVIOUS
<1>1. CASE UNCHANGED vars
  BY <1>1 DEF vars, tmuxVars, bridgeVars, Inv, Life, Shown, Heard, Released, Registered,
              WinWs, WsOf
<1>2. CASE TmuxOnly
  BY <1>2, InvTmuxOnly
<1>3. ASSUME NEW b \in Bridges, Check(b) \/ Handler(b) PROVE Inv'
  BY <1>2, <1>3, InvHandler DEF Handler, TmuxOnly
<1>4. ASSUME NEW b \in Bridges, Reader(b) PROVE Inv'
  BY <1>4, InvReader
<1>5. ASSUME NEW b \in Bridges, Writer(b) \/ Client(b) \/ BrowserCloses(b) \/ InputFails(b)
      PROVE  Inv'
  BY <1>5, InvWriterCleanup, InvWriterClient DEF Writer
<1>6. ASSUME NEW w \in Windows, RecreateTab(w) PROVE Inv'
  BY <1>6, InvRecreateTab
<1> QED
  BY <1>1, <1>2, <1>3, <1>4, <1>5, <1>6 DEF Next, Environment, TmuxOnly

LEMMA InvInit == Init => Inv
  BY TmuxAssumption, BridgeAssumption
     DEF Init, TmuxInit, Silent, Inv, Life, Shown, Heard, Released, Registered

LEMMA Invariance == Spec => [](TypeOK /\ Inv)
  BY TypeInit, TypeStep, InvInit, InvStep, PTL DEF Spec

\* A connection whose two tasks have ended has left no process, no linked session,
\* no open socket and no registration behind, in whatever order they ended.
THEOREM NothingLeft ==
    ASSUME DbPoisoned = FALSE
    PROVE  Spec => []NothingLeftBehind
<1>1. TypeOK /\ Inv => NothingLeftBehind
  BY DEF TypeOK, Inv, Released, Registered, NothingLeftBehind, Ended
<1> QED
  BY <1>1, Invariance, PTL

-----------------------------------------------------------------------------
(***************************************************************************)
(* pane_exit.                                                              *)
(***************************************************************************)

\* A window a connection has been told of under the id of its own is its own.
LEMMA OwnClose ==
    ASSUME TypeOK, Inv, NEW b \in Bridges, NEW w \in pty[b].closes,
           current[b] \in Windows, WinId[w] = WinId[current[b]]
    PROVE  window[current[b]] = "dead"
<1>1. w \in Windows
  BY DEF TypeOK, TmuxTypeOK, Output
<1>2. WinWs(w) = WsOf(b) /\ WinWs(current[b]) = WsOf(b)
  BY DEF Inv, Heard, Shown
<1>3. w = current[b]
  BY <1>1, <1>2, TmuxAssumption DEF WinWs
<1> QED
  BY <1>3 DEF Inv, Heard

\* A browser gets pane_exit only for a window that is dead: dead windows stay dead,
\* window_exists is asked before a notification is believed, and the connection's
\* own close line cannot be about anything else, although ids repeat across servers.
LEMMA PaneExitStep ==
    ASSUME TypeOK, Inv, PaneExitSound, [Next]_vars, TmuxMayFail = FALSE
    PROVE  PaneExitSound'
<1>1. \A w \in Windows : window[w] = "dead" => window'[w] = "dead"
  <2>1. CASE TmuxOnly
    BY <2>1, TmuxOnlyMoves DEF TypeOK, Inv, TmuxMoves
  <2>2. ASSUME NEW b \in Bridges, WriterCleanup(b)
        PROVE  \A w \in Windows : window[w] = "dead" => window'[w] = "dead"
    BY <2>2, KillLinkMoves DEF WriterCleanup, TypeOK, Inv, TmuxMoves
  <2>3. ASSUME NEW w \in Windows, RecreateTab(w)
        PROVE  \A v \in Windows : window[v] = "dead" => window'[v] = "dead"
    BY <2>3 DEF RecreateTab, NewWindow, TypeOK, TmuxTypeOK
  <2>4. ASSUME NEW b \in Bridges,
               Check(b) \/ ListStale(b) \/ CreateLink(b) 
           \/ SelectAndQuery(b) \/ StartBridge(b) \/ StartFails(b)
        PROVE  window' = window
    BY <2>4 DEF Check, ListStale, CreateLink, SelectAndQuery, StartBridge, StartFails, HandlerStep, tmuxVars
  <2>5. ASSUME NEW b \in Bridges, Reader(b)
        PROVE  window' = window
    BY <2>5 DEF Reader, Register, ReplayFails, ReaderCancelled, ReaderSendFails, ReaderEof,
         ReaderPanics, OwnCloseNotified, OtherWindowClosed, WindowClosed, ExitSeen, VerifyClose, VerifyExit,
         ReaderCleanup, ReaderStep, SendPaneExit, tmuxVars
  <2>6. ASSUME NEW b \in Bridges,
               WriterBreak(b) \/ WriterReap(b) \/ Client(b) \/ BrowserCloses(b) \/ InputFails(b)
        PROVE  window' = window
    BY <2>6 DEF WriterBreak, WriterReap, InputFails, WriterStep, Client, ClientStarts, ClientAttach,
         ClientEnds, ClientHup, BrowserCloses, tmuxVars
  <2>7. CASE UNCHANGED vars
    BY <2>7 DEF vars, tmuxVars
  <2> QED
    BY <2>1, <2>2, <2>3, <2>4, <2>5, <2>6, <2>7 DEF Next, Environment, Handler, Writer, TmuxOnly
<1>2. \A b \in exited : current'[b] = current[b] /\ current[b] \in Windows
  <2>1. \A b \in exited : b \in Bridges /\ handler[b] = "bridged"
    BY DEF TypeOK, Inv, Life
  <2>2. ASSUME TmuxOnly PROVE current' = current
    BY <2>2, TmuxOnlyMoves DEF TypeOK, Inv, TmuxMoves
  <2>3. ASSUME NEW b \in Bridges, WriterCleanup(b) PROVE current' = current
    BY <2>3, KillLinkMoves DEF WriterCleanup, TypeOK, Inv, TmuxMoves
  <2>4. ASSUME NEW w \in Windows, RecreateTab(w) PROVE current' = current
    BY <2>4 DEF RecreateTab, NewWindow
  <2>5. ASSUME NEW b \in Bridges,
               Check(b) \/ ListStale(b) \/ CreateLink(b) 
           \/ SelectAndQuery(b) \/ StartBridge(b) \/ StartFails(b)
        PROVE  \A p \in exited : current'[p] = current[p]
    BY <2>1, <2>5 DEF Check, ListStale, CreateLink, SelectAndQuery, StartBridge, StartFails, HandlerStep, tmuxVars, TypeOK, TmuxTypeOK
  <2>6. ASSUME NEW b \in Bridges, Reader(b)
        PROVE  current' = current
    BY <2>6 DEF Reader, Register, ReplayFails, ReaderCancelled, ReaderSendFails, ReaderEof,
         ReaderPanics, OwnCloseNotified, OtherWindowClosed, WindowClosed, ExitSeen, VerifyClose, VerifyExit,
         ReaderCleanup, ReaderStep, SendPaneExit, tmuxVars
  <2>7. ASSUME NEW b \in Bridges,
               WriterBreak(b) \/ WriterReap(b) \/ Client(b) \/ BrowserCloses(b) \/ InputFails(b)
        PROVE  current' = current
    BY <2>7 DEF WriterBreak, WriterReap, InputFails, WriterStep, Client, ClientStarts, ClientAttach,
         ClientEnds, ClientHup, BrowserCloses, tmuxVars
  <2>8. ASSUME UNCHANGED vars PROVE current' = current
    BY <2>8 DEF vars, tmuxVars
  <2>9. \A b \in exited : current'[b] = current[b]
    BY <2>2, <2>3, <2>4, <2>5, <2>6, <2>7, <2>8
       DEF Next, Environment, Handler, Writer, TmuxOnly
  <2> QED
    BY <2>1, <2>9 DEF Inv, Life
<1>3. ASSUME NEW b \in exited', b \notin exited
      PROVE  b \in Bridges /\ current[b] \in Windows /\ current'[b] = current[b]
             /\ window[current[b]] = "dead"
  <2>1. b \in Bridges /\ (WindowClosed(b) \/ VerifyClose(b) \/ VerifyExit(b))
    <3>1. CASE TmuxOnly
      BY <1>3, <3>1, TmuxOnlyMoves DEF TypeOK, Inv
    <3>2. ASSUME NEW p \in Bridges, WriterCleanup(p) PROVE FALSE
      BY <1>3, <3>2 DEF WriterCleanup
    <3>3. ASSUME NEW w \in Windows, RecreateTab(w) PROVE FALSE
      BY <1>3, <3>3 DEF RecreateTab, bridgeVars
    <3>4. ASSUME NEW p \in Bridges,
                 Check(p) \/ ListStale(p) \/ CreateLink(p) 
                 \/ SelectAndQuery(p) \/ StartBridge(p) \/ StartFails(p)
          PROVE  FALSE
      BY <1>3, <3>4 DEF Check, ListStale, CreateLink, SelectAndQuery, StartBridge, StartFails, HandlerStep
    <3>5. ASSUME NEW p \in Bridges, Reader(p)
          PROVE  p = b /\ (WindowClosed(b) \/ VerifyClose(b) \/ VerifyExit(b))
      BY <1>3, <3>5 DEF Reader, Register, ReplayFails, ReaderCancelled, ReaderSendFails, ReaderEof,
         ReaderPanics, OwnCloseNotified, OtherWindowClosed, WindowClosed, ExitSeen, VerifyClose, VerifyExit,
         ReaderCleanup, ReaderStep, SendPaneExit
    <3>6. ASSUME NEW p \in Bridges,
                 WriterBreak(p) \/ WriterReap(p) \/ Client(p) \/ BrowserCloses(p) \/ InputFails(p)
          PROVE  FALSE
      BY <1>3, <3>6 DEF WriterBreak, WriterReap, InputFails, WriterStep, Client, ClientStarts, ClientAttach,
         ClientEnds, ClientHup, BrowserCloses, bridgeVars
    <3>7. CASE UNCHANGED vars
      BY <1>3, <3>7 DEF vars, bridgeVars
    <3> QED
      BY <3>1, <3>2, <3>3, <3>4, <3>5, <3>6, <3>7
         DEF Next, Environment, Handler, Writer, TmuxOnly
  <2>2. reader[b] # "none" /\ current' = current
    BY <2>1 DEF WindowClosed, VerifyClose, VerifyExit, ReaderStep, tmuxVars
  <2>3. current[b] \in Windows
    BY <2>1, <2>2 DEF Inv, Life
  <2>4. CASE WindowClosed(b)
    <3>1. PICK w \in pty[b].closes : WinId[w] = WinId[current[b]]
      BY <2>4 DEF WindowClosed
    <3>2. window[current[b]] = "dead"
      BY <2>1, <2>3, <3>1, OwnClose
    <3> QED
      BY <2>1, <2>2, <2>3, <3>2
  <2>5. CASE VerifyClose(b) \/ VerifyExit(b)
    <3>1. window[current[b]] # "alive"
      BY <1>3, <2>1, <2>5 DEF VerifyClose, VerifyExit, WindowExists
    <3> QED
      BY <2>1, <2>2, <2>3, <3>1 DEF Inv, Shown, TypeOK, TmuxTypeOK
  <2> QED
    BY <2>1, <2>2, <2>3, <2>4, <2>5
<1> QED
  BY <1>1, <1>2, <1>3 DEF PaneExitSound

THEOREM PaneExit ==
    ASSUME TmuxMayFail = FALSE
    PROVE  Spec => []PaneExitSound
<1>1. Init => PaneExitSound
  BY DEF Init, PaneExitSound
<1>2. TypeOK /\ Inv /\ PaneExitSound /\ [Next]_vars => PaneExitSound'
  BY PaneExitStep
<1> QED
  BY <1>1, <1>2, Invariance, PTL DEF Spec

-----------------------------------------------------------------------------
(***************************************************************************)
(* Every step is a step TerminalConnection allows, or one it does not see. *)
(***************************************************************************)

\* A request that has not selected its window yet shows none.
Unseen ==
    \A b \in Bridges :
        handler[b] \in {"idle", "checked", "listed", "linked"} => current[b] = NoWindow

LEMMA UnseenStep ==
    ASSUME TypeOK, Inv, Unseen, [Next]_vars
    PROVE  Unseen'
<1>1. CASE TmuxOnly
  BY <1>1, TmuxOnlyMoves DEF TypeOK, Inv, TmuxMoves, Unseen
<1>2. ASSUME NEW b \in Bridges, WriterCleanup(b) PROVE Unseen'
  BY <1>2, KillLinkMoves DEF WriterCleanup, TypeOK, Inv, TmuxMoves, Unseen
<1>3. ASSUME NEW b \in Bridges,
             Check(b) \/ ListStale(b) \/ CreateLink(b)
             \/ SelectAndQuery(b) \/ StartBridge(b) \/ StartFails(b)
      PROVE  Unseen'
  BY <1>3 DEF Check, ListStale, CreateLink, SelectAndQuery, StartBridge, StartFails, HandlerStep,
              tmuxVars, Unseen, TypeOK, TmuxTypeOK
<1>4. CASE current' = current /\ handler' = handler
  BY <1>4 DEF Unseen
<1>5. ASSUME NEW w \in Windows, RecreateTab(w) PROVE current' = current /\ handler' = handler
  BY <1>5 DEF RecreateTab, NewWindow, bridgeVars
<1>6. ASSUME NEW b \in Bridges, Reader(b) PROVE current' = current /\ handler' = handler
  BY <1>6 DEF Reader, Register, ReplayFails, ReaderCancelled, ReaderSendFails, ReaderEof,
         ReaderPanics, OwnCloseNotified, OtherWindowClosed, WindowClosed, ExitSeen, VerifyClose, VerifyExit,
         ReaderCleanup, tmuxVars
<1>7. ASSUME NEW b \in Bridges,
             WriterBreak(b) \/ WriterReap(b) \/ Client(b) \/ BrowserCloses(b) \/ InputFails(b)
      PROVE  current' = current /\ handler' = handler
  BY <1>7 DEF WriterBreak, WriterReap, InputFails, Client, ClientStarts, ClientAttach,
         ClientEnds, ClientHup, BrowserCloses, bridgeVars, tmuxVars
<1>8. ASSUME UNCHANGED vars PROVE current' = current /\ handler' = handler
  BY <1>8 DEF vars, tmuxVars, bridgeVars
<1> QED
  BY <1>1, <1>2, <1>3, <1>4, <1>5, <1>6, <1>7, <1>8
     DEF Next, Environment, Handler, Writer, TmuxOnly

\* The phase of a connection, told by its handler and its two tasks alone.
PhaseOf(b) ==
    IF handler[b] = "refused" THEN "refused"
    ELSE IF handler[b] # "bridged" THEN "idle"
    ELSE IF reader[b] = "done" /\ writer[b] = "done" THEN "closed"
    ELSE IF reader[b] \in {"replay", "select", "verifyClose", "verifyExit"} /\ writer[b] = "recv"
         THEN "open" ELSE "closing"

LEMMA PhaseKnown ==
    ASSUME Inv, NEW b \in Bridges
    PROVE  Phase(b) = PhaseOf(b)
BY DEF Phase, PhaseOf, Ended, Inv, Released

LEMMA PhaseKnownNext ==
    ASSUME Inv', NEW b \in Bridges
    PROVE  Phase(b)' = PhaseOf(b)'
BY DEF Phase, PhaseOf, Ended, Inv, Released

Gone == {b \in Bridges : current[b] # NoWindow /\ window[current[b]] = "dead"}

\* What the steps of TerminalConnection are, in terms of the bridge.
LEMMA Moves ==
    ASSUME Inv, Inv', NEW b \in Bridges, NEW from, NEW to,
           \A c \in Bridges : c # b => PhaseOf(c)' = PhaseOf(c),
           PhaseOf(b) \in from, PhaseOf(b)' = to
    PROVE  Connection!Move(b, from, to)
<1>1. \A c \in Bridges : Phase(c) = PhaseOf(c) /\ Phase(c)' = PhaseOf(c)'
  BY PhaseKnown, PhaseKnownNext
<1>2. [c \in Bridges |-> Phase(c)]'
        = [[c \in Bridges |-> Phase(c)] EXCEPT ![b] = to]
  BY <1>1
<1>3. [c \in Bridges |-> Phase(c)][b] \in from
  BY <1>1
<1> QED
  BY <1>2, <1>3 DEF Connection!Move

LEMMA PhasesStay ==
    ASSUME Inv, Inv', \A c \in Bridges : PhaseOf(c)' = PhaseOf(c)
    PROVE  UNCHANGED [c \in Bridges |-> Phase(c)]
BY PhaseKnown, PhaseKnownNext

\* Panes that are gone stay gone.
LEMMA PanesGoing ==
    ASSUME Inv, Inv', Gone \subseteq Gone', exited' = exited,
           \A c \in Bridges : PhaseOf(c)' = PhaseOf(c)
    PROVE  Connection!ConnectionNext
<1>1. PICK C \in SUBSET Bridges : C = Gone'
  BY DEF Gone
<1>2. Connection!PanesGo(C)
  BY <1>1, PhasesStay DEF Connection!PanesGo, Gone
<1> QED
  BY <1>2 DEF Connection!ConnectionNext

LEMMA NothingSeen ==
    ASSUME Inv, Inv', Gone' = Gone, exited' = exited,
           \A c \in Bridges : PhaseOf(c)' = PhaseOf(c)
    PROVE  UNCHANGED Connection!absVars
BY PhasesStay DEF Connection!absVars, Gone

LEMMA TmuxMovesGone ==
    ASSUME TypeOK, TmuxMoves
    PROVE  Gone \subseteq Gone'
BY DEF TmuxMoves, Gone, TypeOK, TmuxTypeOK

LEMMA HandlerSeen ==
    ASSUME TypeOK, Inv, Inv', Unseen, NEW b \in Bridges,
           Check(b) \/ ListStale(b) \/ CreateLink(b)
           \/ SelectAndQuery(b) \/ StartBridge(b) \/ StartFails(b)
    PROVE  [Connection!ConnectionNext]_Connection!absVars
<1>1. /\ handler[b] \notin {"bridged", "refused"} /\ exited' = exited /\ window' = window
      /\ \A c \in Bridges : c # b => /\ handler'[c] = handler[c] /\ reader'[c] = reader[c]
                                     /\ writer'[c] = writer[c] /\ current'[c] = current[c]
      /\ handler'[b] = "bridged" => reader'[b] = "replay" /\ writer'[b] = "recv"
      /\ \/ current'[b] = current[b]
         \/ handler[b] = "linked" /\ current'[b] \in Target(b)
  BY DEF Check, ListStale, CreateLink, SelectAndQuery, StartBridge, StartFails, HandlerStep,
         tmuxVars, TypeOK, TmuxTypeOK
<1>2. Gone' = Gone
  BY <1>1, TmuxAssumption DEF Gone, Unseen, Target, Alive
<1>3. /\ \A c \in Bridges : c # b => PhaseOf(c)' = PhaseOf(c)
      /\ PhaseOf(b) = "idle"
      /\ PhaseOf(b)' = IF handler'[b] = "refused" THEN "refused"
                       ELSE IF handler'[b] = "bridged" THEN "open" ELSE "idle"
  BY <1>1 DEF PhaseOf
<1>4. CASE handler'[b] = "refused"
  <2>1. Connection!Move(b, {"idle"}, "refused")
    BY <1>3, <1>4, Moves
  <2>2. Connection!Refuse(b)
    BY <1>1, <1>2, <2>1 DEF Connection!Refuse, Gone
  <2> QED
    BY <2>2 DEF Connection!ConnectionNext
<1>5. CASE handler'[b] = "bridged"
  <2>1. Connection!Move(b, {"idle"}, "open")
    BY <1>3, <1>5, Moves
  <2>2. Connection!Open(b)
    BY <1>1, <1>2, <2>1 DEF Connection!Open, Gone
  <2> QED
    BY <2>2 DEF Connection!ConnectionNext
<1>6. CASE handler'[b] \notin {"refused", "bridged"}
  BY <1>1, <1>2, <1>3, <1>6, NothingSeen
<1> QED
  BY <1>4, <1>5, <1>6

\* A task of b ends, or stops being part of an open connection.
LEMMA TaskSeen ==
    ASSUME Inv, Inv', NEW b \in Bridges, Gone' = Gone, exited' = exited,
           \A c \in Bridges : c # b => PhaseOf(c)' = PhaseOf(c),
           \/ PhaseOf(b)' = PhaseOf(b)
           \/ PhaseOf(b) = "open" /\ PhaseOf(b)' = "closing"
           \/ PhaseOf(b) = "closing" /\ PhaseOf(b)' = "closed"
    PROVE  [Connection!ConnectionNext]_Connection!absVars
<1>1. CASE PhaseOf(b)' = PhaseOf(b)
  BY <1>1, NothingSeen
<1>2. CASE PhaseOf(b) = "open" /\ PhaseOf(b)' = "closing"
  <2>1. Connection!Move(b, {"open"}, "closing")
    BY <1>2, Moves
  <2>2. Connection!Close(b)
    BY <2>1 DEF Connection!Close, Gone
  <2> QED
    BY <2>2 DEF Connection!ConnectionNext
<1>3. CASE PhaseOf(b) = "closing" /\ PhaseOf(b)' = "closed"
  <2>1. Connection!Move(b, {"closing"}, "closed")
    BY <1>3, Moves
  <2>2. Connection!Release(b, {})
    BY <2>1 DEF Connection!Release, Gone
  <2> QED
    BY <2>2 DEF Connection!ConnectionNext
<1> QED
  BY <1>1, <1>2, <1>3

LEMMA ReaderSeen ==
    ASSUME TypeOK, Inv, Inv', PaneExitSound', NEW b \in Bridges, Reader(b)
    PROVE  [Connection!ConnectionNext]_Connection!absVars
<1> DEFINE Loop == {"replay", "select", "verifyClose", "verifyExit"}
<1>1. /\ UNCHANGED <<handler, writer, current, window>>
      /\ \A c \in Bridges : c # b => reader'[c] = reader[c]
      /\ writer[b] \notin {"wait", "kill"}
      /\ \/ reader[b] \in Loop
         \/ reader[b] = "cleanup" /\ reader'[b] = "done"
      /\ reader'[b] \in Loop \cup {"cleanup", "done"}
      /\ \/ exited' = exited
         \/ exited' = exited \cup {b} /\ reader[b] \in Loop /\ reader'[b] = "cleanup"
  BY DEF Reader, Register, ReplayFails, ReaderCancelled, ReaderSendFails, ReaderEof,
         ReaderPanics, OwnCloseNotified, OtherWindowClosed, WindowClosed, ExitSeen, VerifyClose, VerifyExit,
         ReaderCleanup, ReaderStep, SendPaneExit, ThreadFree, tmuxVars, TypeOK
<1>2. handler[b] = "bridged" /\ current[b] \in Windows
  BY <1>1 DEF Inv, Life
<1>3. Gone' = Gone /\ \A c \in Bridges : c # b => PhaseOf(c)' = PhaseOf(c)
  BY <1>1 DEF Gone, PhaseOf
<1>4. CASE exited' = exited
  <2>1. \/ PhaseOf(b)' = PhaseOf(b)
        \/ PhaseOf(b) = "open" /\ PhaseOf(b)' = "closing"
        \/ PhaseOf(b) = "closing" /\ PhaseOf(b)' = "closed"
    BY <1>1, <1>2 DEF PhaseOf
  <2> QED
    BY <1>3, <1>4, <2>1, TaskSeen
<1>5. CASE exited' = exited \cup {b} /\ reader[b] \in Loop /\ reader'[b] = "cleanup"
  <2>1. PhaseOf(b) \in {"open", "closing"} /\ PhaseOf(b)' = "closing"
    BY <1>1, <1>2, <1>5 DEF PhaseOf
  <2>2. b \in Gone
    BY <1>1, <1>2, <1>5, TmuxAssumption DEF PaneExitSound, Gone
  <2>3. Connection!Move(b, {"open", "closing"}, "closing")
    BY <1>3, <2>1, Moves
  <2>4. Connection!Report(b)
    BY <1>3, <1>5, <2>2, <2>3 DEF Connection!Report, Gone
  <2> QED
    BY <2>4 DEF Connection!ConnectionNext
<1> QED
  BY <1>1, <1>4, <1>5

LEMMA WriterSeen ==
    ASSUME TypeOK, Inv, Inv', NEW b \in Bridges,
           WriterBreak(b) \/ WriterReap(b) \/ Client(b) \/ BrowserCloses(b) \/ InputFails(b)
    PROVE  [Connection!ConnectionNext]_Connection!absVars
<1>1. /\ UNCHANGED <<handler, reader, current, window, exited>>
      /\ \A c \in Bridges : c # b => writer'[c] = writer[c]
      /\ \/ writer'[b] = writer[b]
         \/ writer[b] = "recv" /\ writer'[b] = "wait"
         \/ writer[b] = "wait" /\ writer'[b] = "kill"
  BY DEF WriterBreak, WriterReap, InputFails, WriterStep, Client, ClientStarts, ClientAttach,
         ClientEnds, ClientHup, BrowserCloses, bridgeVars, tmuxVars, TypeOK
<1>2. Gone' = Gone /\ \A c \in Bridges : c # b => PhaseOf(c)' = PhaseOf(c)
  BY <1>1 DEF Gone, PhaseOf
<1>3. PhaseOf(b)' = PhaseOf(b) \/ (PhaseOf(b) = "open" /\ PhaseOf(b)' = "closing")
  BY <1>1 DEF PhaseOf
<1> QED
  BY <1>1, <1>2, <1>3, TaskSeen

LEMMA WriterCleanupSeen ==
    ASSUME TypeOK, Inv, Inv', NEW b \in Bridges, WriterCleanup(b)
    PROVE  [Connection!ConnectionNext]_Connection!absVars
<1>1. /\ UNCHANGED <<handler, reader, exited>>
      /\ writer[b] = "kill" /\ writer'[b] = "done"
      /\ \A c \in Bridges : c # b => writer'[c] = writer[c]
  BY DEF WriterCleanup, WriterStep, TypeOK
<1>2. Gone \subseteq Gone'
  BY KillLinkMoves, TmuxMovesGone DEF WriterCleanup, TypeOK, Inv
<1>3. handler[b] = "bridged"
  BY <1>1 DEF Inv, Life
<1>4. \A c \in Bridges : c # b => PhaseOf(c)' = PhaseOf(c)
  BY <1>1 DEF PhaseOf
<1>5. CASE reader[b] = "done"
  <2>1. PhaseOf(b) = "closing" /\ PhaseOf(b)' = "closed"
    BY <1>1, <1>3, <1>5 DEF PhaseOf
  <2>2. Connection!Move(b, {"closing"}, "closed")
    BY <1>4, <2>1, Moves
  <2>3. PICK C \in SUBSET Bridges : C = Gone'
    BY DEF Gone
  <2>4. Connection!Release(b, C)
    BY <1>1, <1>2, <2>2, <2>3 DEF Connection!Release, Gone
  <2> QED
    BY <2>4 DEF Connection!ConnectionNext
<1>6. CASE reader[b] # "done"
  <2>1. PhaseOf(b)' = PhaseOf(b)
    BY <1>1, <1>3, <1>6 DEF PhaseOf
  <2> QED
    BY <1>1, <1>2, <1>4, <2>1, PanesGoing
<1> QED
  BY <1>5, <1>6

LEMMA StepsSeen ==
    ASSUME TypeOK, Inv, Inv', Unseen, PaneExitSound', [Next]_vars
    PROVE  [Connection!ConnectionNext]_Connection!absVars
<1>1. CASE TmuxOnly
  <2>1. /\ TmuxMoves
        /\ UNCHANGED <<handler, reader, writer, exited>>
    BY <1>1, TmuxOnlyMoves DEF TypeOK, Inv
  <2>2. Gone \subseteq Gone' /\ \A c \in Bridges : PhaseOf(c)' = PhaseOf(c)
    BY <2>1, TmuxMovesGone DEF PhaseOf
  <2> QED
    BY <2>1, <2>2, PanesGoing
<1>2. ASSUME NEW b \in Bridges, Check(b) \/ Handler(b)
      PROVE  [Connection!ConnectionNext]_Connection!absVars
  BY <1>1, <1>2, HandlerSeen DEF Handler, TmuxOnly
<1>3. ASSUME NEW b \in Bridges, Reader(b)
      PROVE  [Connection!ConnectionNext]_Connection!absVars
  BY <1>3, ReaderSeen
<1>4. ASSUME NEW b \in Bridges, Writer(b) \/ Client(b) \/ BrowserCloses(b) \/ InputFails(b)
      PROVE  [Connection!ConnectionNext]_Connection!absVars
  BY <1>4, WriterSeen, WriterCleanupSeen DEF Writer
<1>5. ASSUME NEW w \in Windows, RecreateTab(w)
      PROVE  UNCHANGED Connection!absVars
  <2>1. UNCHANGED bridgeVars /\ current' = current /\ window[w] = "unborn"
        /\ window' = [window EXCEPT ![w] = "alive"]
    BY <1>5 DEF RecreateTab, NewWindow
  <2>2. Gone' = Gone
    BY <2>1 DEF Gone, TypeOK, TmuxTypeOK
  <2>3. exited' = exited /\ \A c \in Bridges : PhaseOf(c)' = PhaseOf(c)
    BY <2>1 DEF PhaseOf, bridgeVars
  <2> QED
    BY <2>2, <2>3, NothingSeen
<1>6. CASE UNCHANGED vars
  <2>1. Gone' = Gone /\ exited' = exited /\ \A c \in Bridges : PhaseOf(c)' = PhaseOf(c)
    BY <1>6 DEF vars, tmuxVars, bridgeVars, Gone, PhaseOf
  <2> QED
    BY <2>1, NothingSeen
<1> QED
  BY <1>1, <1>2, <1>3, <1>4, <1>5, <1>6 DEF Next, Environment, TmuxOnly

\* However requests, readers, writers, browsers and tmux servers interleave: a
\* browser sees a connection refused or opened once, told of an exit only when its
\* pane is gone, closed only after it has begun to close and with everything
\* released.  This is the safety part of ImplementsConnection.
THEOREM StepsAreConnectionSteps ==
    ASSUME TmuxMayFail = FALSE
    PROVE  Spec => Connection!ConnectionInit
                     /\ [][Connection!ConnectionNext]_Connection!absVars
<1>1. Init => Connection!ConnectionInit
  BY DEF Init, TmuxInit, Connection!ConnectionInit, Phase
<1>2. Init => Unseen
  BY DEF Init, TmuxInit, Unseen
<1>3. TypeOK /\ Inv /\ Unseen /\ [Next]_vars => Unseen'
  BY UnseenStep
<1>4. TypeOK /\ Inv /\ Inv' /\ Unseen /\ PaneExitSound' /\ [Next]_vars
        => [Connection!ConnectionNext]_Connection!absVars
  BY StepsSeen
<1> QED
  BY <1>1, <1>2, <1>3, <1>4, PaneExit, Invariance, PTL DEF Spec
=============================================================================
