---------------------------- MODULE WorkspaceOps ----------------------------
(***************************************************************************)
(* The REST handlers that keep two stores in step: the rows of the SQLite  *)
(* database (workspaces, workspace_tabs) and the tmux sessions and windows *)
(* (src/src/projects.rs over src/src/db.rs and src/src/tmux.rs).           *)
(*                                                                         *)
(* All rows are behind one mutex.  A handler holds it for a row access, or *)
(* (list_workspaces) for the whole request; a panic under it poisons it    *)
(* and every later lock().unwrap() panics too.  tmux commands are steps of *)
(* their own, and shells exit at any time.  A session lives as long as it  *)
(* has a window.                                                           *)
(*                                                                         *)
(* Only the windows of main sessions are here: what linked sessions keep   *)
(* alive is in TmuxServer.  Working directories, titles, categories and    *)
(* the order of tabs are left out.                                         *)
(***************************************************************************)
EXTENDS Naturals, FiniteSets

CONSTANTS
    Requests,     \* each carries out one request
    Kinds,        \* the requests browsers send
    WsIds,        \* workspaces: row id and session name
    TabIds,       \* tab row ids; a tab's window is named after it
    Foreign,      \* names of windows people open in tmux themselves
    Longer,       \* the names that properly extend a window name
    MaxWindows,   \* how many windows are ever created
    InitWindows,  \* the windows an earlier run left, each with its row
    NoWs,         \* not a workspace
    Nobody        \* not a request

Names == TabIds \cup Foreign
Window == [n : 1..MaxWindows, ws : WsIds, name : Names]

ASSUME OpsAssumption ==
    /\ Kinds \subseteq {"createWs", "deleteWs", "recreateWs",
                        "createTab", "deleteTab", "recreateTab", "list"}
    /\ TabIds \subseteq Nat \ {0}
    /\ TabIds \cap Foreign = {}
    /\ Longer \in [Names -> SUBSET Names]
    /\ MaxWindows \in Nat
    /\ InitWindows \subseteq Window
    /\ \A w \in InitWindows : w.name \in TabIds
    /\ \A v, w \in InitWindows : v # w => v.n # w.n /\ v.name # w.name
    /\ NoWs \notin WsIds
    /\ Nobody \notin Requests

VARIABLES
    wsRow,     \* the row of a workspace: never, row or deleted
    tabRow,    \* the workspace of a tab row; NoWs if there is no such row
    lastTab,   \* the highest tab id ever used (AUTOINCREMENT)
    lock,      \* who holds the database mutex
    poisoned,  \* a panic under the mutex poisoned it
    windows,   \* the windows alive in main sessions
    born,      \* the numbers of all windows ever created
    adopted,   \* the window a tab row was made for by adoption, 0 if by none
    pc,        \* where a request is
    kind,      \* what it was asked for
    ws,        \* the workspace it works on
    todo,      \* the tabs or workspaces it has still to go through
    orphans    \* the windows it found untracked and has still to adopt

rows == <<wsRow, tabRow, lastTab, adopted>>
mutex == <<lock, poisoned>>
tmux == <<windows, born>>
request == <<pc, kind, ws, todo, orphans>>
vars == <<rows, mutex, tmux, request>>

PCs == {"idle", "look", "snapshot", "killTab", "kill", "listTabs", "probe", "addWindow",
        "addSession", "deleteRows", "scan", "done", "failed"}

TypeOK ==
    /\ wsRow \in [WsIds -> {"never", "row", "deleted"}]
    /\ tabRow \in [TabIds -> WsIds \cup {NoWs}]
    /\ lastTab \in TabIds \cup {0}
    /\ lock \in Requests \cup {Nobody}
    /\ poisoned \in BOOLEAN
    /\ windows \subseteq Window
    /\ born \subseteq 1..MaxWindows
    /\ adopted \in [TabIds -> 0..MaxWindows]
    /\ pc \in [Requests -> PCs]
    /\ kind \in [Requests -> Kinds \cup {"none"}]
    /\ ws \in [Requests -> WsIds \cup {NoWs}]
    /\ todo \in [Requests -> SUBSET (TabIds \cup WsIds)]
    /\ orphans \in [Requests -> SUBSET Window]

\* The rows, all ids ever used and the tmux servers, when there are windows W.
Left(W) ==
    /\ wsRow = [s \in WsIds |-> IF \E w \in W : w.ws = s THEN "row" ELSE "never"]
    /\ tabRow \in [TabIds -> WsIds \cup {NoWs}]
    /\ \A t \in TabIds, s \in WsIds : tabRow[t] = s <=> \E w \in W : w.name = t /\ w.ws = s
    /\ lastTab \in {w.name : w \in W} \cup {0}
    /\ \A w \in W : w.name <= lastTab
    /\ windows = W
    /\ born = {w.n : w \in W}

\* The program starts on what an earlier run left, or on an empty database.
Init ==
    /\ Left(InitWindows) \/ Left({})
    /\ lock = Nobody
    /\ poisoned = FALSE
    /\ adopted = [t \in TabIds |-> 0]
    /\ pc = [r \in Requests |-> "idle"]
    /\ kind = [r \in Requests |-> "none"]
    /\ ws = [r \in Requests |-> NoWs]
    /\ todo = [r \in Requests |-> {}]
    /\ orphans = [r \in Requests |-> {}]

-----------------------------------------------------------------------------
(***************************************************************************)
(* tmux commands and row accesses.                                         *)
(***************************************************************************)

Sessions == {w.ws : w \in windows}

\* The window that the target ws-N:name resolves to: the one of exactly that name
\* (two are an error), or else the only one whose name starts with it.
Found(s, name) ==
    LET exact == {w \in windows : w.ws = s /\ w.name = name}
        longer == {w \in windows : w.ws = s /\ w.name \in Longer[name]}
        candidates == IF exact # {} THEN exact ELSE longer
    IN  {w \in candidates : candidates = {w}}

\* new-window, new-session and people in tmux create windows with fresh numbers.
Create(s, name) ==
    \E n \in (1..MaxWindows) \ born :
        /\ born' = born \cup {n}
        /\ windows' = windows \cup {[n |-> n, ws |-> s, name |-> name]}

\* Mutant: rename-window takes the position of the new tab (from 0), not its id.
RenamedToOrder(w, name) == [w EXCEPT !.name = 0]

Renamed(w, name) == [w EXCEPT !.name = name]

Known(t) == t <= lastTab
Free == lock = Nobody /\ ~poisoned

\* Mutants: get_workspace and get_workspace_id_for_tab are not consulted.
AnyWs(s) == TRUE

\* get_workspace finds a row.
HasRow(s) == wsRow[s] = "row"

\* The next id; the ids in between went to tabs of other workspaces.
AddTabRow(t, s, n) ==
    /\ ~Known(t)
    /\ \A u \in TabIds : ~Known(u) => t <= u
    /\ tabRow' = [tabRow EXCEPT ![t] = s]
    /\ lastTab' = t
    /\ adopted' = [adopted EXCEPT ![t] = n]

Goto(r, to) == pc' = [pc EXCEPT ![r] = to]

\* A request arrives and goes to its next step.
Begin(r, k, s, T, to) ==
    /\ pc[r] = "idle"
    /\ k \in Kinds
    /\ Goto(r, to)
    /\ kind' = [kind EXCEPT ![r] = k]
    /\ ws' = [ws EXCEPT ![r] = s]
    /\ todo' = [todo EXCEPT ![r] = T]
    /\ UNCHANGED orphans

Step(r, from, to) ==
    /\ pc[r] = from
    /\ Goto(r, to)
    /\ UNCHANGED <<kind, ws, orphans>>

-----------------------------------------------------------------------------
(***************************************************************************)
(* create_workspace, delete_workspace, recreate_workspace.                 *)
(***************************************************************************)

CreateWorkspace(r, s, t) ==
    /\ Free
    /\ wsRow[s] = "never"
    /\ wsRow' = [wsRow EXCEPT ![s] = "row"]
    /\ AddTabRow(t, s, 0)
    /\ Begin(r, "createWs", s, {t}, "addSession")
    /\ UNCHANGED <<mutex, tmux>>

\* kill_session needs no row and no lock.
DeleteWorkspace(r, s) ==
    /\ wsRow[s] # "never"
    /\ Begin(r, "deleteWs", s, {}, "deleteRows")
    /\ windows' = {w \in windows : w.ws # s}
    /\ UNCHANGED <<rows, mutex, born>>

DeleteRows(r) ==
    /\ Free
    /\ Step(r, "deleteRows", "done")
    /\ wsRow' = [wsRow EXCEPT ![ws[r]] = "deleted"]
    /\ tabRow' = [t \in TabIds |-> IF tabRow[t] = ws[r] THEN NoWs ELSE tabRow[t]]
    /\ UNCHANGED <<lastTab, adopted, mutex, tmux, todo>>

RecreateWorkspace(r, s) ==
    /\ Free
    /\ wsRow[s] # "never"
    /\ Begin(r, "recreateWs", s, {}, IF HasRow(s) THEN "snapshot" ELSE "failed")
    /\ UNCHANGED <<rows, mutex, tmux>>

KillSession(r) ==
    /\ Step(r, "kill", "listTabs")
    /\ windows' = {w \in windows : w.ws # ws[r]}
    /\ UNCHANGED <<rows, mutex, born, todo>>

ListTabs(r) ==
    /\ Free
    /\ Step(r, "listTabs", "probe")
    /\ todo' = [todo EXCEPT ![r] = {t \in TabIds : tabRow[t] = ws[r]}]
    /\ UNCHANGED <<rows, mutex, tmux>>

\* No tab left: the answer depends on whether there is a session now.
RecreateEnds(r) ==
    /\ kind[r] = "recreateWs"
    /\ todo[r] = {}
    /\ Step(r, "probe", IF ws[r] \in Sessions THEN "done" ELSE "failed")
    /\ UNCHANGED <<rows, mutex, tmux, todo>>

-----------------------------------------------------------------------------
(***************************************************************************)
(* create_tab, delete_tab, recreate_tab.                                   *)
(***************************************************************************)

\* The insert of a tab row violates the foreign key when the workspace is gone: the
\* expect() panics with the mutex held.
CreateTab(r, s) ==
    /\ Free
    /\ wsRow[s] # "never"
    /\ \/ /\ HasRow(s)
          /\ \E t \in TabIds : AddTabRow(t, s, 0) /\ Begin(r, "createTab", s, {t}, "probe")
          /\ UNCHANGED <<wsRow, mutex>>
       \/ /\ ~HasRow(s)
          /\ Begin(r, "createTab", s, {}, "failed")
          /\ poisoned' = TRUE
          /\ UNCHANGED <<rows, lock>>
    /\ UNCHANGED tmux

\* Lookup, kill_window and the removal of the row all happen under the lock.
DeleteTab(r, t) ==
    /\ Free
    /\ Known(t)
    /\ Begin(r, "deleteTab", tabRow[t], {t}, "done")
    /\ windows' = IF tabRow[t] = NoWs THEN windows ELSE windows \ Found(tabRow[t], t)
    /\ tabRow' = [tabRow EXCEPT ![t] = NoWs]
    /\ UNCHANGED <<wsRow, lastTab, adopted, mutex, born>>

RecreateTab(r, t) ==
    /\ Free
    /\ Known(t)
    /\ Begin(r, "recreateTab", tabRow[t], {t}, IF tabRow[t] = NoWs THEN "failed" ELSE "look")
    /\ UNCHANGED <<rows, mutex, tmux>>

\* has_session and has_window.
Look(r) ==
    /\ \E t \in todo[r] : Step(r, "look", IF Found(ws[r], t) = {} THEN "probe" ELSE "snapshot")
    /\ UNCHANGED <<rows, mutex, tmux, todo>>

\* The working directories are saved under the lock; recreate_tab skips that when
\* its window has gone in the meantime.
Snapshot(r) ==
    /\ Free \/ \E t \in todo[r] : Found(ws[r], t) = {}
    /\ Step(r, "snapshot", IF kind[r] = "recreateWs" THEN "kill" ELSE "killTab")
    /\ UNCHANGED <<rows, mutex, tmux, todo>>

KillTab(r) ==
    /\ Step(r, "killTab", "probe")
    /\ \E t \in todo[r] : windows' = windows \ Found(ws[r], t)
    /\ UNCHANGED <<rows, mutex, born, todo>>

\* has_session decides between a window and a session; create_tab makes no session.
\* recreate_tab has just read its working directory under the lock.
Probe(r) ==
    /\ todo[r] # {}
    /\ kind[r] = "recreateTab" => Free
    /\ Step(r, "probe", IF ws[r] \in Sessions THEN "addWindow"
                        ELSE IF kind[r] = "createTab" THEN "done" ELSE "addSession")
    /\ UNCHANGED <<rows, mutex, tmux, todo>>

\* new_window needs the session, new_session its absence; only recreate_tab reports
\* the failure, recreate_workspace goes on with its next tab.
Add(r, from, possible) ==
    /\ \E t \in todo[r] :
          /\ IF possible THEN Create(ws[r], t) ELSE UNCHANGED tmux
          /\ todo' = [todo EXCEPT ![r] = IF kind[r] = "recreateWs" THEN @ \ {t} ELSE @]
    /\ Step(r, from, CASE kind[r] = "recreateWs" -> "probe"
                       [] kind[r] = "recreateTab" /\ ~possible -> "failed"
                       [] OTHER -> "done")
    /\ UNCHANGED <<rows, mutex>>

AddWindow(r) == Add(r, "addWindow", ws[r] \in Sessions)
AddSession(r) == Add(r, "addSession", ws[r] \notin Sessions)

-----------------------------------------------------------------------------
(***************************************************************************)
(* list_workspaces with adopt_orphan_windows.                              *)
(***************************************************************************)

\* Mutant: the lock is only taken to read the rows.
LockBriefly(r) == lock' = lock

HoldLock(r) == lock' = r

ListWorkspaces(r) ==
    /\ Free
    /\ HoldLock(r)
    /\ Begin(r, "list", NoWs, {s \in WsIds : HasRow(s)}, "scan")
    /\ UNCHANGED <<rows, poisoned, tmux>>

\* The windows of one session that no row of its workspace names.
Scan(r, s) ==
    /\ pc[r] = "scan"
    /\ orphans[r] = {}
    /\ s \in todo[r]
    /\ todo' = [todo EXCEPT ![r] = @ \ {s}]
    /\ orphans' = [orphans EXCEPT ![r] =
                     {w \in windows : w.ws = s /\ ~ \E t \in TabIds : t = w.name /\ tabRow[t] = s}]
    /\ UNCHANGED <<rows, mutex, tmux, pc, kind, ws>>

\* A row for the orphan, then rename-window by the name it had when listed.
Adopted(r, w, t) ==
    /\ AddTabRow(t, w.ws, w.n)
    /\ windows' = {IF v \in Found(w.ws, w.name) THEN Renamed(v, t) ELSE v : v \in windows}
    /\ orphans' = [orphans EXCEPT ![r] = @ \ {w}]
    /\ UNCHANGED <<wsRow, mutex, born, pc, kind, ws, todo>>

\* The same insert, the same expect(): without the workspace it would panic.
AdoptPanics(r) ==
    /\ Step(r, "scan", "failed")
    /\ poisoned' = TRUE
    /\ lock' = Nobody
    /\ UNCHANGED <<rows, tmux, todo>>

Adopt(r, w, t) ==
    /\ pc[r] = "scan"
    /\ w \in orphans[r]
    /\ IF HasRow(w.ws) THEN Adopted(r, w, t) ELSE AdoptPanics(r)

ListEnds(r) ==
    /\ orphans[r] = {}
    /\ todo[r] = {}
    /\ Step(r, "scan", "done")
    /\ lock' = Nobody
    /\ UNCHANGED <<rows, poisoned, tmux, todo>>

\* lock().unwrap() on a poisoned mutex.
Panics(r) ==
    /\ poisoned
    /\ \/ \E from \in {"deleteRows", "listTabs", "snapshot"} : Step(r, from, "failed")
       \/ kind[r] = "recreateTab" /\ Step(r, "probe", "failed")
    /\ UNCHANGED <<rows, mutex, tmux, todo>>

-----------------------------------------------------------------------------

ShellExits(w) ==
    /\ windows' = windows \ {w}
    /\ UNCHANGED <<rows, mutex, born, request>>

\* Somebody runs `tmux new-window` inside a terminal.
OpenWindow(s, f) ==
    /\ s \in Sessions
    /\ Create(s, f)
    /\ UNCHANGED <<rows, mutex, request>>

Arrival(r) ==
    \/ \E s \in WsIds :
          \/ \E t \in TabIds : CreateWorkspace(r, s, t)
          \/ DeleteWorkspace(r, s)
          \/ RecreateWorkspace(r, s)
          \/ CreateTab(r, s)
    \/ \E t \in TabIds : DeleteTab(r, t) \/ RecreateTab(r, t)
    \/ ListWorkspaces(r)

Handling(r) ==
    \/ DeleteRows(r)
    \/ KillSession(r)
    \/ ListTabs(r)
    \/ RecreateEnds(r)
    \/ Look(r)
    \/ Snapshot(r)
    \/ KillTab(r)
    \/ Probe(r)
    \/ AddWindow(r)
    \/ AddSession(r)
    \/ \E s \in WsIds : Scan(r, s)
    \/ \E w \in orphans[r], t \in TabIds : Adopt(r, w, t)
    \/ ListEnds(r)
    \/ Panics(r)

Next ==
    \/ \E r \in Requests : Arrival(r) \/ Handling(r)
    \/ \E w \in windows : ShellExits(w)
    \/ \E s \in WsIds, f \in Foreign : OpenWindow(s, f)

Spec == Init /\ [][Next]_vars

-----------------------------------------------------------------------------
(***************************************************************************)
(* Properties.                                                             *)
(***************************************************************************)

\* Only create_tab can trip over the foreign key and poison the mutex.  Adoption
\* inserts rows too, several tmux commands after it read the workspaces, and never
\* does: it keeps the mutex for the whole request.
PoisonedByCreateTab ==
    poisoned => \E r \in Requests : kind[r] = "createTab" /\ pc[r] = "failed"

\* The rows that were made for a window: by the handler that then created it under
\* its tab's name, or by adopting it.
RowsOf(w) ==
    {t \in TabIds : /\ tabRow[t] = w.ws
                    /\ adopted[t] = w.n \/ (t = w.name /\ adopted[t] = 0)}

\* tmux takes any number of windows of one name and then resolves the name to none.
NamesUnique == \A v, w \in windows : v.ws = w.ws /\ v.name = w.name => v = w

\* However list_workspaces of several browsers interleave with requests that create
\* and delete tabs and with shells that exit, no window gets two tabs: as long as no
\* two windows of a session bear one name.  (Adoption cannot rename such windows, and
\* every list makes them another row.)
OneRowPerWindow == []NamesUnique => [](\A w \in windows : Cardinality(RowsOf(w)) <= 1)

\* A request under way that may still create something for workspace s or tab t.
Busy(r) == pc[r] \notin {"idle", "done", "failed"}

WsGone(s) ==
    /\ wsRow[s] = "deleted"
    /\ s \notin Sessions
    /\ \A r \in Requests : Busy(r) => ws[r] # s

TabGone(t) ==
    /\ Known(t)
    /\ tabRow[t] = NoWs
    /\ \A w \in windows : w.name # t
    /\ \A r \in Requests : Busy(r) => t \notin todo[r] /\ \A w \in orphans[r] : w.name # t

\* What is deleted stays deleted: once the requests that overlapped the deletion
\* have ended, no later request (of a browser whose list is stale) brings a session
\* of a deleted workspace or a window of a deleted tab back.
DeletionIsFinal ==
    /\ \A s \in WsIds : [](WsGone(s) => [](s \notin Sessions))
    /\ \A t \in TabIds : [](TabGone(t) => [](tabRow[t] = NoWs /\ \A w \in windows : w.name # t))

-----------------------------------------------------------------------------
(***************************************************************************)
(* What comments, tests and log lines say, and the code does not do.       *)
(***************************************************************************)

\* "leaves sibling tabs untouched": recreate_tab kills no window of another tab.
SiblingsUntouched ==
    [][\A r \in Requests :
          pc[r] = "killTab" /\ pc'[r] = "probe" => \A w \in windows \ windows' : w.name \in todo[r]]_vars
=============================================================================
