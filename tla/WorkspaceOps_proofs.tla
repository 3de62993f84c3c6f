------------------------ MODULE WorkspaceOps_proofs ------------------------
(***************************************************************************)
(* Type correctness and PoisonedByCreateTab of WorkspaceOps for any number *)
(* of requests, workspaces, tabs and windows.                              *)
(***************************************************************************)
EXTENDS WorkspaceOps, FiniteSetTheorems, TLAPS

\* A request under way knows its workspace, and what it has still to do.
Working ==
    \A r \in Requests :
        /\ pc[r] \notin {"idle", "scan", "done", "failed"} =>
              ws[r] \in WsIds /\ todo[r] \subseteq TabIds
        /\ pc[r] = "scan" => todo[r] \subseteq WsIds

\* The mutex is held across steps by list_workspaces, and by nothing else.
Locked == \A r \in Requests : pc[r] = "scan" <=> lock = r

\* While it is held, the workspaces that were listed keep their rows.
ScanRows ==
    \A r \in Requests :
        /\ pc[r] = "scan" =>
              /\ \A s \in todo[r] : HasRow(s)
              /\ \A w \in orphans[r] : HasRow(w.ws)
        /\ pc[r] = "idle" => orphans[r] = {}

Inv == TypeOK /\ Working /\ Locked /\ ScanRows /\ PoisonedByCreateTab

-----------------------------------------------------------------------------

\* A window that is created is a window.
LEMMA CreateType ==
    ASSUME TypeOK, NEW s \in WsIds, NEW x \in Names, Create(s, x)
    PROVE  windows' \subseteq Window /\ born' \subseteq 1..MaxWindows
  BY DEF Create, Window, TypeOK

LEMMA AddType ==
    ASSUME TypeOK, Working, NEW r \in Requests, AddWindow(r) \/ AddSession(r)
    PROVE  TypeOK' /\ Working'
<1>1. ws[r] \in WsIds /\ todo[r] \subseteq TabIds
  BY DEF AddWindow, AddSession, Add, Step, Working
<1>2. windows' \subseteq Window /\ born' \subseteq 1..MaxWindows
  <2>1. PICK t \in todo[r] : Create(ws[r], t) \/ UNCHANGED tmux
    BY DEF AddWindow, AddSession, Add
  <2>2. t \in Names
    BY <1>1 DEF Names
  <2>3. CASE Create(ws[r], t)
    BY <1>1, <2>2, <2>3, CreateType
  <2>4. CASE UNCHANGED tmux
    BY <2>4 DEF tmux, TypeOK
  <2> QED
    BY <2>1, <2>3, <2>4
<1>3. /\ UNCHANGED <<rows, mutex, kind, ws, orphans>>
      /\ \E T \in SUBSET TabIds : todo' = [todo EXCEPT ![r] = T]
      /\ \E to \in {"probe", "failed", "done"} : pc' = [pc EXCEPT ![r] = to]
  BY <1>1 DEF AddWindow, AddSession, Add, Step, Goto
<1>4. TypeOK'
  BY <1>2, <1>3 DEF TypeOK, PCs, rows, mutex
<1>5. Working'
  BY <1>1, <1>3 DEF Working, TypeOK
<1> QED
  BY <1>4, <1>5

LEMMA AdoptType ==
    ASSUME TypeOK, NEW r \in Requests, NEW w \in orphans[r], NEW t \in TabIds, Adopted(r, w, t)
    PROVE  TypeOK'
<1>1. w \in Window /\ w.ws \in WsIds /\ w.n \in 1..MaxWindows
  BY DEF TypeOK, Window
<1>2. windows' \subseteq Window
  <2>1. \A v \in Window : Renamed(v, t) \in Window
    BY DEF Renamed, Window, Names
  <2> QED
    BY <2>1 DEF Adopted, TypeOK
<1>3. tabRow' \in [TabIds -> WsIds \cup {NoWs}] /\ lastTab' \in TabIds \cup {0}
  BY <1>1 DEF Adopted, AddTabRow, TypeOK
<1>4. adopted' \in [TabIds -> 0..MaxWindows]
  BY <1>1 DEF Adopted, AddTabRow, TypeOK
<1>5. orphans' \in [Requests -> SUBSET Window]
  BY DEF Adopted, TypeOK
<1> QED
  BY <1>2, <1>3, <1>4, <1>5 DEF Adopted, mutex, TypeOK

LEMMA ArrivalType ==
    ASSUME TypeOK, Working, NEW r \in Requests, Arrival(r)
    PROVE  TypeOK' /\ Working'
<1> USE DEF Begin, Goto, PCs, TypeOK, rows, mutex, tmux, Working
<1>1. ASSUME NEW s \in WsIds, NEW t \in TabIds, CreateWorkspace(r, s, t)
      PROVE  TypeOK' /\ Working'
  BY <1>1, OpsAssumption DEF CreateWorkspace, AddTabRow
<1>2. ASSUME NEW s \in WsIds, DeleteWorkspace(r, s)
      PROVE  TypeOK' /\ Working'
  BY <1>2 DEF DeleteWorkspace
<1>3. ASSUME NEW s \in WsIds, RecreateWorkspace(r, s)
      PROVE  TypeOK' /\ Working'
  BY <1>3 DEF RecreateWorkspace
<1>4. ASSUME NEW s \in WsIds, CreateTab(r, s)
      PROVE  TypeOK' /\ Working'
  <2>1. CASE HasRow(s)
    <3>1. PICK t \in TabIds : AddTabRow(t, s, 0) /\ Begin(r, "createTab", s, {t}, "probe")
      BY <1>4, <2>1 DEF CreateTab
    <3>2. UNCHANGED <<wsRow, mutex, tmux>>
      BY <1>4, <2>1 DEF CreateTab
    <3>3. /\ tabRow' = [tabRow EXCEPT ![t] = s]
          /\ lastTab' = t
          /\ adopted' = [adopted EXCEPT ![t] = 0]
      BY <3>1 DEF AddTabRow
    <3>4. 0 \in 0..MaxWindows
      BY OpsAssumption
    <3>5. TypeOK'
      BY <3>1, <3>2, <3>3, <3>4
    <3> QED
      BY <3>1, <3>5
  <2>2. CASE ~HasRow(s)
    <3>1. Begin(r, "createTab", s, {}, "failed") /\ poisoned' = TRUE /\ UNCHANGED <<rows, lock, tmux>>
      BY <1>4, <2>2 DEF CreateTab
    <3> QED
      BY <3>1
  <2> QED
    BY <2>1, <2>2
<1>5. ASSUME NEW t \in TabIds, DeleteTab(r, t)
      PROVE  TypeOK' /\ Working'
  BY <1>5 DEF DeleteTab
<1>6. ASSUME NEW t \in TabIds, RecreateTab(r, t)
      PROVE  TypeOK' /\ Working'
  BY <1>6 DEF RecreateTab
<1>7. CASE ListWorkspaces(r)
  BY <1>7 DEF ListWorkspaces, HoldLock
<1> QED
  BY <1>1, <1>2, <1>3, <1>4, <1>5, <1>6, <1>7 DEF Arrival

LEMMA HandlingType ==
    ASSUME TypeOK, Working, NEW r \in Requests, Handling(r)
    PROVE  TypeOK' /\ Working'
<1>1. CASE AddWindow(r) \/ AddSession(r)
  BY <1>1, AddType
<1>2. ASSUME NEW w \in orphans[r], NEW t \in TabIds, Adopt(r, w, t)
      PROVE  TypeOK' /\ Working'
  <2>1. CASE Adopted(r, w, t)
    BY <2>1, AdoptType DEF Adopted, Working
  <2>2. CASE AdoptPanics(r)
    BY <2>2 DEF AdoptPanics, Step, Goto, PCs, TypeOK, rows, tmux, Working
  <2> QED
    BY <1>2, <2>1, <2>2 DEF Adopt
<1> USE DEF Step, Goto, PCs, TypeOK, rows, mutex, tmux, Working
<1>3. CASE DeleteRows(r)
  BY <1>3 DEF DeleteRows
<1>4. CASE KillSession(r)
  BY <1>4 DEF KillSession
<1>5. CASE ListTabs(r)
  BY <1>5 DEF ListTabs
<1>6. CASE RecreateEnds(r)
  BY <1>6 DEF RecreateEnds
<1>7. CASE Look(r)
  BY <1>7 DEF Look
<1>8. CASE Snapshot(r)
  BY <1>8 DEF Snapshot
<1>9. CASE KillTab(r)
  BY <1>9 DEF KillTab
<1>10. CASE Probe(r)
  BY <1>10 DEF Probe
<1>11. ASSUME NEW s \in WsIds, Scan(r, s)
       PROVE  TypeOK' /\ Working'
  BY <1>11 DEF Scan
<1>12. CASE ListEnds(r)
  BY <1>12 DEF ListEnds
<1>13. CASE Panics(r)
  BY <1>13 DEF Panics
<1> QED
  BY <1>1, <1>2, <1>3, <1>4, <1>5, <1>6, <1>7, <1>8, <1>9, <1>10, <1>11, <1>12, <1>13
     DEF Handling

LEMMA TypeStep == TypeOK /\ Working /\ [Next]_vars => TypeOK' /\ Working'
<1> SUFFICES ASSUME TypeOK, Working, [Next]_vars PROVE TypeOK' /\ Working'
  OBVIOUS
<1>1. CASE UNCHANGED vars
  BY <1>1 DEF vars, rows, mutex, tmux, request, TypeOK, Working
<1>2. ASSUME NEW w \in windows, ShellExits(w) PROVE TypeOK' /\ Working'
  BY <1>2 DEF ShellExits, rows, mutex, request, TypeOK, Working
<1>3. ASSUME NEW s \in WsIds, NEW f \in Foreign, OpenWindow(s, f) PROVE TypeOK' /\ Working'
  BY <1>3, CreateType DEF OpenWindow, rows, mutex, request, TypeOK, Working, Names
<1> QED
  BY <1>1, <1>2, <1>3, ArrivalType, HandlingType DEF Next
-----------------------------------------------------------------------------

\* The steps of requests other than list_workspaces.
OtherStep(r) ==
    \/ \E s \in WsIds :
          \/ \E t \in TabIds : CreateWorkspace(r, s, t)
          \/ DeleteWorkspace(r, s)
          \/ RecreateWorkspace(r, s)
          \/ CreateTab(r, s)
    \/ \E t \in TabIds : DeleteTab(r, t) \/ RecreateTab(r, t)
    \/ DeleteRows(r) \/ KillSession(r) \/ ListTabs(r) \/ RecreateEnds(r) \/ Look(r)
    \/ Snapshot(r) \/ KillTab(r) \/ Probe(r) \/ AddWindow(r) \/ AddSession(r) \/ Panics(r)

\* They keep away from the mutex, touch workspaces only while it is free, and only
\* create_tab poisons it.
LEMMA OtherFrame ==
    ASSUME TypeOK, NEW r \in Requests, OtherStep(r)
    PROVE  /\ lock' = lock
           /\ wsRow' = wsRow \/ lock = Nobody
           /\ pc[r] \notin {"scan", "done", "failed"} /\ pc'[r] \notin {"scan", "idle"}
           /\ \A q \in Requests \ {r} : /\ pc'[q] = pc[q] /\ kind'[q] = kind[q]
                                        /\ todo'[q] = todo[q] /\ orphans'[q] = orphans[q]
           /\ poisoned' = poisoned \/ (kind'[r] = "createTab" /\ pc'[r] = "failed")
<1> DEFINE Frame ==
      /\ lock' = lock
      /\ wsRow' = wsRow \/ lock = Nobody
      /\ pc[r] \notin {"scan", "done", "failed"} /\ pc'[r] \notin {"scan", "idle"}
      /\ \A q \in Requests \ {r} : /\ pc'[q] = pc[q] /\ kind'[q] = kind[q]
                                   /\ todo'[q] = todo[q] /\ orphans'[q] = orphans[q]
      /\ poisoned' = poisoned \/ (kind'[r] = "createTab" /\ pc'[r] = "failed")
<1> USE DEF Begin, Step, Goto, TypeOK, rows, mutex, Free
<1>1. ASSUME NEW s \in WsIds, NEW t \in TabIds, CreateWorkspace(r, s, t) PROVE Frame
  BY <1>1 DEF CreateWorkspace
<1>2. ASSUME NEW s \in WsIds,
             DeleteWorkspace(r, s) \/ RecreateWorkspace(r, s)
      PROVE  Frame
  BY <1>2 DEF DeleteWorkspace, RecreateWorkspace
<1>3. ASSUME NEW s \in WsIds, CreateTab(r, s) PROVE Frame
  <2>1. CASE HasRow(s)
    <3>1. PICK t \in TabIds : Begin(r, "createTab", s, {t}, "probe")
      BY <1>3, <2>1 DEF CreateTab
    <3>2. UNCHANGED <<wsRow, mutex>>
      BY <1>3, <2>1 DEF CreateTab
    <3> QED
      BY <3>1, <3>2
  <2>2. CASE ~HasRow(s)
    <3>1. Begin(r, "createTab", s, {}, "failed") /\ poisoned' = TRUE /\ UNCHANGED <<rows, lock>>
      BY <1>3, <2>2 DEF CreateTab
    <3> QED
      BY <3>1
  <2> QED
    BY <2>1, <2>2
<1>4. ASSUME NEW t \in TabIds, DeleteTab(r, t) \/ RecreateTab(r, t) PROVE Frame
  BY <1>4 DEF DeleteTab, RecreateTab
<1>5. ASSUME DeleteRows(r) \/ KillSession(r) \/ ListTabs(r) \/ RecreateEnds(r) \/ Look(r) PROVE Frame
  BY <1>5 DEF DeleteRows, KillSession, ListTabs, RecreateEnds, Look
<1>6. ASSUME Snapshot(r) \/ KillTab(r) \/ Probe(r) \/ Panics(r) PROVE Frame
  BY <1>6 DEF Snapshot, KillTab, Probe, Panics
<1>7. ASSUME AddWindow(r) \/ AddSession(r) PROVE Frame
  BY <1>7 DEF AddWindow, AddSession, Add
<1> QED
  BY <1>1, <1>2, <1>3, <1>4, <1>5, <1>6, <1>7 DEF OtherStep

LEMMA LockStep ==
    ASSUME TypeOK, Locked, ScanRows, [Next]_vars
    PROVE  Locked' /\ ScanRows'
<1>1. CASE UNCHANGED vars
  BY <1>1 DEF vars, rows, mutex, request, Locked, ScanRows, HasRow
<1>2. ASSUME NEW w \in windows, ShellExits(w) PROVE Locked' /\ ScanRows'
  BY <1>2 DEF ShellExits, rows, mutex, request, Locked, ScanRows, HasRow
<1>3. ASSUME NEW s \in WsIds, NEW f \in Foreign, OpenWindow(s, f) PROVE Locked' /\ ScanRows'
  BY <1>3 DEF OpenWindow, rows, mutex, request, Locked, ScanRows, HasRow
<1>4. ASSUME NEW r \in Requests, OtherStep(r) PROVE Locked' /\ ScanRows'
  BY <1>4, OtherFrame, OpsAssumption DEF Locked, ScanRows, HasRow
<1>5. ASSUME NEW r \in Requests, ListWorkspaces(r) PROVE Locked' /\ ScanRows'
  <2>1. /\ lock = Nobody /\ lock' = r /\ pc[r] = "idle"
        /\ pc' = [pc EXCEPT ![r] = "scan"]
        /\ todo' = [todo EXCEPT ![r] = {s \in WsIds : HasRow(s)}]
        /\ UNCHANGED <<orphans, wsRow>>
    BY <1>5 DEF ListWorkspaces, HoldLock, Begin, Goto, Free, rows
  <2>2. \A q \in Requests : pc[q] # "scan"
    BY <2>1, OpsAssumption DEF Locked
  <2>3. Locked'
    BY <2>1, <2>2 DEF Locked, TypeOK
  <2>4. orphans[r] = {}
    BY <2>1 DEF ScanRows
  <2> QED
    BY <2>1, <2>2, <2>3, <2>4 DEF ScanRows, HasRow, TypeOK
<1>6. ASSUME NEW r \in Requests, NEW s \in WsIds, Scan(r, s) PROVE Locked' /\ ScanRows'
  BY <1>6 DEF Scan, TypeOK, rows, mutex, Locked, ScanRows, HasRow
<1>7. ASSUME NEW r \in Requests, NEW w \in orphans[r], NEW t \in TabIds, Adopt(r, w, t)
      PROVE  Locked' /\ ScanRows'
  <2>1. Adopted(r, w, t)
    BY <1>7 DEF Adopt, ScanRows
  <2> QED
    BY <1>7, <2>1 DEF Adopt, Adopted, TypeOK, mutex, Locked, ScanRows, HasRow
<1>8. ASSUME NEW r \in Requests, ListEnds(r) PROVE Locked' /\ ScanRows'
  BY <1>8, OpsAssumption DEF ListEnds, Step, Goto, TypeOK, rows, Locked, ScanRows, HasRow
<1> QED
  BY <1>1, <1>2, <1>3, <1>4, <1>5, <1>6, <1>7, <1>8
     DEF Next, Arrival, Handling, OtherStep

LEMMA PoisonStep ==
    ASSUME TypeOK, ScanRows, PoisonedByCreateTab, [Next]_vars
    PROVE  PoisonedByCreateTab'
<1>1. CASE UNCHANGED vars
  BY <1>1 DEF vars, mutex, request, PoisonedByCreateTab
<1>2. ASSUME NEW w \in windows, ShellExits(w) PROVE PoisonedByCreateTab'
  BY <1>2 DEF ShellExits, mutex, request, PoisonedByCreateTab
<1>3. ASSUME NEW s \in WsIds, NEW f \in Foreign, OpenWindow(s, f) PROVE PoisonedByCreateTab'
  BY <1>3 DEF OpenWindow, mutex, request, PoisonedByCreateTab
<1>4. ASSUME NEW r \in Requests, OtherStep(r) PROVE PoisonedByCreateTab'
  BY <1>4, OtherFrame DEF PoisonedByCreateTab
<1>5. ASSUME NEW r \in Requests, ListWorkspaces(r) PROVE PoisonedByCreateTab'
  BY <1>5 DEF ListWorkspaces, Begin, Free, PoisonedByCreateTab
<1>6. ASSUME NEW r \in Requests, NEW s \in WsIds, Scan(r, s) PROVE PoisonedByCreateTab'
  BY <1>6 DEF Scan, mutex, PoisonedByCreateTab
<1>7. ASSUME NEW r \in Requests, NEW w \in orphans[r], NEW t \in TabIds, Adopt(r, w, t)
      PROVE  PoisonedByCreateTab'
  <2>1. Adopted(r, w, t)
    BY <1>7 DEF Adopt, ScanRows
  <2> QED
    BY <2>1 DEF Adopted, mutex, PoisonedByCreateTab
<1>8. ASSUME NEW r \in Requests, ListEnds(r) PROVE PoisonedByCreateTab'
  BY <1>8 DEF ListEnds, Step, Goto, TypeOK, PoisonedByCreateTab
<1> QED
  BY <1>1, <1>2, <1>3, <1>4, <1>5, <1>6, <1>7, <1>8
     DEF Next, Arrival, Handling, OtherStep

LEMMA InvInit == Init => Inv
<1> SUFFICES ASSUME Init PROVE Inv
  OBVIOUS
<1>1. TypeOK
  <2>1. InitWindows \subseteq Window /\ \A w \in InitWindows : w.name \in TabIds /\ w.n \in 1..MaxWindows
    BY OpsAssumption DEF Window
  <2>2. 0 \in 0..MaxWindows
    BY OpsAssumption
  <2>3. lastTab \in TabIds \cup {0} /\ windows \subseteq Window /\ born \subseteq 1..MaxWindows
    BY <2>1 DEF Init, Left
  <2>4. /\ wsRow \in [WsIds -> {"never", "row", "deleted"}]
        /\ tabRow \in [TabIds -> WsIds \cup {NoWs}]
        /\ adopted \in [TabIds -> 0..MaxWindows]
        /\ lock = Nobody /\ poisoned = FALSE
    BY <2>2 DEF Init, Left
  <2>5. /\ pc \in [Requests -> PCs]
        /\ kind \in [Requests -> Kinds \cup {"none"}]
        /\ ws \in [Requests -> WsIds \cup {NoWs}]
        /\ todo \in [Requests -> SUBSET (TabIds \cup WsIds)]
        /\ orphans \in [Requests -> SUBSET Window]
    BY DEF Init, PCs
  <2> QED
    BY <2>3, <2>4, <2>5 DEF TypeOK
<1>2. Working /\ Locked /\ ScanRows /\ PoisonedByCreateTab
  BY OpsAssumption DEF Init, Working, Locked, ScanRows, PoisonedByCreateTab
<1> QED
  BY <1>1, <1>2 DEF Inv

LEMMA Invariance == Spec => []Inv
<1>1. Inv /\ [Next]_vars => Inv'
  BY TypeStep, LockStep, PoisonStep DEF Inv
<1> QED
  BY InvInit, <1>1, PTL DEF Spec

\* Rows, windows, the mutex and all requests under way stay well typed.
THEOREM TypeCorrect == Spec => []TypeOK
  BY Invariance, PTL DEF Inv

\* The mutex is only ever poisoned by create_tab: the inserts of adoption cannot
\* violate the foreign key, because the lock taken before the workspaces are read is
\* still held.
THEOREM OnlyCreateTabPoisons == Spec => []PoisonedByCreateTab
  BY Invariance, PTL DEF Inv
-----------------------------------------------------------------------------
(***************************************************************************)
(* The steps as rows and windows see them.                                 *)
(***************************************************************************)

\* Some windows go, or one is made; lists start and end.
Quiet ==
    /\ UNCHANGED <<rows, orphans>>
    /\ \/ windows' \subseteq windows /\ born' = born
       \/ \E s \in WsIds, x \in Names : Create(s, x)
    /\ \A r \in Requests : pc'[r] = "scan" => pc[r] = "scan" \/ orphans[r] = {}

\* What happens to rows while nobody lists.
Unlisted == UNCHANGED orphans /\ \A r \in Requests : pc'[r] # "scan"

RowAdded(t, s) ==
    /\ Unlisted
    /\ AddTabRow(t, s, 0)
    /\ HasRow(s)' /\ \A u \in WsIds : HasRow(u) => HasRow(u)'
    /\ UNCHANGED tmux

RowsRemoved(s) ==
    /\ Unlisted
    /\ wsRow' = [wsRow EXCEPT ![s] = "deleted"]
    /\ tabRow' = [t \in TabIds |-> IF tabRow[t] = s THEN NoWs ELSE tabRow[t]]
    /\ UNCHANGED <<lastTab, adopted, tmux>>

RowRemoved(t) ==
    /\ Unlisted
    /\ tabRow' = [tabRow EXCEPT ![t] = NoWs]
    /\ windows' = IF tabRow[t] = NoWs THEN windows ELSE windows \ Found(tabRow[t], t)
    /\ UNCHANGED <<wsRow, lastTab, adopted, born>>

RowStep ==
    \/ Quiet
    \/ \E s \in WsIds : RowsRemoved(s) \/ \E t \in TabIds : RowAdded(t, s)
    \/ \E t \in TabIds : RowRemoved(t)
    \/ \E r \in Requests, s \in WsIds : Scan(r, s)
    \/ \E r \in Requests : \E w \in orphans[r], t \in TabIds :
          pc[r] = "scan" /\ HasRow(w.ws) /\ Adopted(r, w, t)

LEMMA FreeUnlisted ==
    ASSUME Inv, lock = Nobody, NEW r \in Requests, OtherStep(r)
    PROVE  \A q \in Requests : pc'[q] # "scan"
  BY OtherFrame, OpsAssumption DEF Inv, Locked

LEMMA AddIsQuiet ==
    ASSUME Inv, NEW r \in Requests, AddWindow(r) \/ AddSession(r)
    PROVE  Quiet
<1>1. ws[r] \in WsIds /\ todo[r] \subseteq Names
  BY DEF Inv, Working, AddWindow, AddSession, Add, Step, Names
<1>2. \E t \in todo[r] : Create(ws[r], t) \/ UNCHANGED tmux
  BY DEF AddWindow, AddSession, Add
<1>3. UNCHANGED <<rows, orphans>>
  BY DEF AddWindow, AddSession, Add, Step
<1>4. \A q \in Requests : pc'[q] = "scan" => pc[q] = "scan"
  BY DEF AddWindow, AddSession, Add, Step, Goto, Inv, TypeOK
<1> QED
  BY <1>1, <1>2, <1>3, <1>4 DEF Quiet, tmux

LEMMA OtherKinds ==
    ASSUME Inv, NEW r \in Requests, OtherStep(r)
    PROVE  RowStep
<1>0. \A q \in Requests : pc'[q] = "scan" => pc[q] = "scan"
  BY OtherFrame DEF Inv
<1>1. ASSUME NEW s \in WsIds, NEW t \in TabIds, CreateWorkspace(r, s, t) PROVE RowStep
  <2>1. lock = Nobody /\ AddTabRow(t, s, 0) /\ UNCHANGED <<tmux, orphans>>
    BY <1>1 DEF CreateWorkspace, Free, Begin
  <2>2. HasRow(s)' /\ \A u \in WsIds : HasRow(u) => HasRow(u)'
    BY <1>1 DEF CreateWorkspace, HasRow, Inv, TypeOK
  <2>3. Unlisted
    BY <1>1, <2>1, FreeUnlisted DEF OtherStep, Unlisted
  <2> QED
    BY <2>1, <2>2, <2>3 DEF RowAdded, RowStep
<1>2. ASSUME NEW s \in WsIds, DeleteWorkspace(r, s) \/ RecreateWorkspace(r, s) PROVE Quiet
  BY <1>0, <1>2 DEF DeleteWorkspace, RecreateWorkspace, Begin, tmux, Quiet
<1>3. ASSUME NEW s \in WsIds, CreateTab(r, s) PROVE RowStep
  <2>0. lock = Nobody /\ UNCHANGED tmux
    BY <1>3 DEF CreateTab, Free
  <2>1. CASE HasRow(s)
    <3>1. PICK t \in TabIds : AddTabRow(t, s, 0) /\ Begin(r, "createTab", s, {t}, "probe")
      BY <1>3, <2>1 DEF CreateTab
    <3>2. wsRow' = wsRow
      BY <1>3, <2>1 DEF CreateTab
    <3>3. Unlisted
      BY <1>3, <2>0, <3>1, FreeUnlisted DEF OtherStep, Unlisted, Begin
    <3> QED
      BY <2>0, <2>1, <3>1, <3>2, <3>3 DEF RowAdded, RowStep, HasRow
  <2>2. CASE ~HasRow(s)
    <3>1. Begin(r, "createTab", s, {}, "failed") /\ UNCHANGED rows
      BY <1>3, <2>2 DEF CreateTab
    <3> QED
      BY <1>0, <2>0, <3>1 DEF Begin, Quiet, RowStep, tmux
  <2> QED
    BY <2>1, <2>2
<1>4. ASSUME NEW t \in TabIds, DeleteTab(r, t) PROVE RowStep
  <2>1. Unlisted
    BY <1>4, FreeUnlisted DEF OtherStep, DeleteTab, Begin, Free, Unlisted
  <2> QED
    BY <1>4, <2>1 DEF DeleteTab, RowRemoved, RowStep
<1>5. ASSUME NEW t \in TabIds, RecreateTab(r, t) PROVE Quiet
  BY <1>0, <1>5 DEF RecreateTab, Begin, tmux, Quiet
<1>6. CASE DeleteRows(r)
  <2>1. Unlisted
    BY <1>6, FreeUnlisted DEF OtherStep, DeleteRows, Step, Free, Unlisted
  <2>2. ws[r] \in WsIds
    BY <1>6 DEF DeleteRows, Step, Inv, Working
  <2>3. RowsRemoved(ws[r])
    BY <1>6, <2>1 DEF DeleteRows, RowsRemoved
  <2> QED
    BY <2>2, <2>3 DEF RowStep
<1>7. CASE KillSession(r) \/ ListTabs(r) \/ RecreateEnds(r) \/ Look(r)
  BY <1>0, <1>7 DEF KillSession, ListTabs, RecreateEnds, Look, Step, tmux, Quiet, RowStep
<1>8. CASE Snapshot(r) \/ KillTab(r) \/ Probe(r) \/ Panics(r)
  BY <1>0, <1>8 DEF Snapshot, KillTab, Probe, Panics, Step, tmux, Quiet, RowStep
<1>9. CASE AddWindow(r) \/ AddSession(r)
  BY <1>9, AddIsQuiet DEF RowStep
<1> QED
  BY <1>1, <1>2, <1>3, <1>4, <1>5, <1>6, <1>7, <1>8, <1>9 DEF OtherStep, RowStep

LEMMA StepKinds ==
    ASSUME Inv, [Next]_vars
    PROVE  RowStep
<1>1. CASE UNCHANGED vars
  BY <1>1 DEF vars, tmux, request, Quiet, RowStep
<1>2. ASSUME NEW w \in windows, ShellExits(w) PROVE Quiet
  BY <1>2 DEF ShellExits, request, Quiet
<1>3. ASSUME NEW s \in WsIds, NEW f \in Foreign, OpenWindow(s, f) PROVE Quiet
  BY <1>3 DEF OpenWindow, request, Quiet, Names
<1>4. ASSUME NEW r \in Requests, ListWorkspaces(r) PROVE Quiet
  BY <1>4 DEF ListWorkspaces, Begin, Goto, tmux, Quiet, Inv, TypeOK, ScanRows
<1>5. ASSUME NEW r \in Requests, ListEnds(r) PROVE Quiet
  BY <1>5 DEF ListEnds, Step, Goto, tmux, Quiet, Inv, TypeOK
<1>6. ASSUME NEW r \in Requests, NEW w \in orphans[r], NEW t \in TabIds, Adopt(r, w, t)
      PROVE  pc[r] = "scan" /\ HasRow(w.ws) /\ Adopted(r, w, t)
  BY <1>6 DEF Adopt, Inv, ScanRows
<1> QED
  BY <1>1, <1>2, <1>3, <1>4, <1>5, <1>6, OtherKinds
     DEF Next, Arrival, Handling, OtherStep, RowStep

-----------------------------------------------------------------------------
(***************************************************************************)
(* One row per window.                                                     *)
(***************************************************************************)

\* Windows are told apart by numbers that are never used again.
Numbered ==
    /\ \A v, w \in windows : v.n = w.n => v = w
    /\ \A w \in windows : w.n \in born
    /\ \A r \in Requests : \A w \in orphans[r] : w.n \in born
    /\ \A t \in TabIds : adopted[t] \in born \cup {0}

\* A row has an id that was given out and a workspace that has a row itself.
RowsValid ==
    \A t \in TabIds : tabRow[t] # NoWs => Known(t) /\ HasRow(tabRow[t])

Tracked(w) == w.name \in TabIds /\ tabRow[w.name] = w.ws

MadeFor(t, w) == tabRow[t] = w.ws /\ adopted[t] = w.n

\* Whoever was adopted is not taken for an orphan again: it has the name of a row
\* (not necessarily of the row that was made for it).
AdoptedTracked == \A w \in windows, t \in TabIds : MadeFor(t, w) => Tracked(w)

OneRow == \A w \in windows : \A t, u \in RowsOf(w) : t = u

\* What a list has still to adopt has no row, whatever it is called by now.
OrphansOpen ==
    \A r \in Requests : pc[r] = "scan" => \A w \in orphans[r] :
        /\ \A t \in TabIds : ~MadeFor(t, w)
        /\ \A v \in orphans[r] : v.n = w.n => v = w
        /\ \A x \in windows : x.n = w.n =>
              /\ x.ws = w.ws
              /\ x.name = w.name \/ Tracked(x)
              /\ ~(Tracked(x) /\ adopted[x.name] = 0)

Rows == Numbered /\ RowsValid

Single == AdoptedTracked /\ OneRow /\ OrphansOpen

LEMMA CreatedIsNew ==
    ASSUME Inv, Numbered, NEW s \in WsIds, NEW x \in Names, Create(s, x)
    PROVE  \E w \in Window :
              /\ windows' = windows \cup {w}
              /\ born' = born \cup {w.n}
              /\ w.n \notin born /\ w.n # 0
<1>1. PICK n \in (1..MaxWindows) \ born :
          /\ born' = born \cup {n}
          /\ windows' = windows \cup {[n |-> n, ws |-> s, name |-> x]}
  BY DEF Create
<1>2. [n |-> n, ws |-> s, name |-> x] \in Window
  BY DEF Window
<1> QED
  BY <1>1, <1>2, OpsAssumption

LEMMA QuietMoves ==
    ASSUME Inv, Numbered, Quiet
    PROVE  \/ windows' \subseteq windows /\ born' = born
           \/ \E w \in Window :
                 /\ windows' = windows \cup {w}
                 /\ born' = born \cup {w.n}
                 /\ w.n \notin born /\ w.n # 0
  BY CreatedIsNew DEF Quiet

LEMMA AdoptedEffect ==
    ASSUME Inv, Numbered, NEW r \in Requests, NEW w \in orphans[r], NEW t \in TabIds, Adopted(r, w, t)
    PROVE  \A x \in windows' : \E y \in windows :
              /\ x.n = y.n /\ x.ws = y.ws
              /\ \/ x = y /\ y \notin Found(w.ws, w.name)
                 \/ x.name = t /\ y \in Found(w.ws, w.name) /\ y.ws = w.ws
<1> SUFFICES ASSUME NEW x \in windows'
             PROVE  \E y \in windows :
                       /\ x.n = y.n /\ x.ws = y.ws
                       /\ \/ x = y /\ y \notin Found(w.ws, w.name)
                          \/ x.name = t /\ y \in Found(w.ws, w.name) /\ y.ws = w.ws
  OBVIOUS
<1>1. PICK y \in windows : x = IF y \in Found(w.ws, w.name) THEN Renamed(y, t) ELSE y
  BY DEF Adopted
<1>2. y \in Window
  BY DEF Inv, TypeOK
<1>3. /\ Renamed(y, t).n = y.n
      /\ Renamed(y, t).ws = y.ws
      /\ Renamed(y, t).name = t
  BY <1>2 DEF Renamed, Window
<1>4. y \in Found(w.ws, w.name) => y.ws = w.ws
  BY DEF Found
<1> QED
  BY <1>1, <1>3, <1>4

\* Ids only grow.
LEMMA AddTabRowElsewhere ==
    ASSUME TypeOK, NEW t \in TabIds, Known(t), NEW u \in TabIds, NEW x, NEW n, AddTabRow(u, x, n)
    PROVE  u # t /\ Known(t)' /\ tabRow'[t] = tabRow[t]
<1>1. lastTab \in Nat /\ TabIds \subseteq Nat
  BY OpsAssumption DEF TypeOK
<1> QED
  BY <1>1 DEF AddTabRow, Known, TypeOK

LEMMA RowsStep ==
    ASSUME Inv, Rows, RowStep
    PROVE  Rows'
<1> USE DEF Rows, RowsValid, Known, HasRow
<1>1. CASE Quiet
  <2>1. RowsValid'
    BY <1>1 DEF Quiet, rows
  <2>2. Numbered'
    BY <1>1, QuietMoves DEF Quiet, rows, Numbered
  <2> QED
    BY <2>1, <2>2
<1>2. ASSUME NEW s \in WsIds, RowsRemoved(s) PROVE Rows'
  BY <1>2 DEF RowsRemoved, Unlisted, tmux, Numbered, Inv, TypeOK
<1>3. ASSUME NEW s \in WsIds, NEW t \in TabIds, RowAdded(t, s) PROVE Rows'
  <2>1. Numbered'
    BY <1>3 DEF RowAdded, AddTabRow, Unlisted, tmux, Numbered, Inv, TypeOK
  <2>2. \A u \in TabIds : Known(u) => Known(u)'
    <3>1. TypeOK /\ AddTabRow(t, s, 0)
      BY <1>3 DEF RowAdded, Inv
    <3> QED
      BY <3>1, AddTabRowElsewhere
  <2>3. RowsValid'
    BY <1>3, <2>2, OpsAssumption DEF RowAdded, AddTabRow, Inv, TypeOK
  <2> QED
    BY <2>1, <2>3
<1>4. ASSUME NEW t \in TabIds, RowRemoved(t) PROVE Rows'
  BY <1>4 DEF RowRemoved, Unlisted, Numbered, Inv, TypeOK
<1>5. ASSUME NEW r \in Requests, NEW s \in WsIds, Scan(r, s) PROVE Rows'
  BY <1>5 DEF Scan, rows, tmux, Numbered, Inv, TypeOK
<1>6. ASSUME NEW r \in Requests, NEW w \in orphans[r], NEW t \in TabIds,
             HasRow(w.ws), Adopted(r, w, t)
      PROVE  Rows'
  <2>1. /\ tabRow' = [tabRow EXCEPT ![t] = w.ws]
        /\ lastTab' = t
        /\ ~Known(t)
        /\ adopted' = [adopted EXCEPT ![t] = w.n]
        /\ orphans' = [orphans EXCEPT ![r] = @ \ {w}]
        /\ UNCHANGED <<wsRow, born>>
    BY <1>6 DEF Adopted, AddTabRow
  <2>2. \A u \in TabIds : Known(u) => Known(u)'
    <3>1. TypeOK /\ AddTabRow(t, w.ws, w.n)
      BY <1>6 DEF Adopted, Inv
    <3> QED
      BY <3>1, AddTabRowElsewhere
  <2>3. RowsValid'
    BY <1>6, <2>1, <2>2, OpsAssumption DEF Inv, TypeOK
  <2>4. /\ \A u \in TabIds : adopted'[u] \in born' \cup {0}
        /\ \A q \in Requests : \A v \in orphans'[q] : v.n \in born'
    BY <2>1 DEF Numbered, Inv, TypeOK
  <2>5. /\ \A v \in windows' : v.n \in born'
        /\ \A v, x \in windows' : v.n = x.n => v = x
    <3>1. ASSUME NEW v \in windows' PROVE v.n \in born'
      BY <1>6, <2>1, AdoptedEffect DEF Numbered
    <3>2. ASSUME NEW v \in windows', NEW x \in windows', v.n = x.n PROVE v = x
      <4>1. PICK y \in windows : v = IF y \in Found(w.ws, w.name) THEN Renamed(y, t) ELSE y
        BY <1>6 DEF Adopted
      <4>2. PICK z \in windows : x = IF z \in Found(w.ws, w.name) THEN Renamed(z, t) ELSE z
        BY <1>6 DEF Adopted
      <4>3. v.n = y.n /\ x.n = z.n
        BY <4>1, <4>2 DEF Renamed, Window, Inv, TypeOK
      <4> QED
        BY <3>2, <4>1, <4>2, <4>3 DEF Numbered
    <3> QED
      BY <3>1, <3>2
  <2> QED
    BY <2>3, <2>4, <2>5 DEF Numbered
<1> QED
  BY <1>1, <1>2, <1>3, <1>4, <1>5, <1>6 DEF RowStep

LEMMA SingleStep ==
    ASSUME Inv, Rows, NamesUnique, Single, RowStep
    PROVE  Single'
<1> USE DEF MadeFor, Tracked, RowsOf, Inv, TypeOK
<1>1. CASE Quiet
  <2>1. UNCHANGED <<tabRow, adopted, orphans>>
    BY <1>1 DEF Quiet, rows
  <2>2. CASE windows' \subseteq windows
    <3>1. AdoptedTracked' /\ OneRow'
      BY <2>1, <2>2 DEF Single, AdoptedTracked, OneRow
    <3>2. OrphansOpen'
      BY <1>1, <2>1, <2>2 DEF Quiet, Single, OrphansOpen
    <3> QED
      BY <3>1, <3>2 DEF Single
  <2>3. ASSUME NEW w \in Window,
               windows' = windows \cup {w}, w.n \notin born, w.n # 0
        PROVE  Single'
    <3>1. \A t \in TabIds : adopted[t] # w.n
      BY <2>3 DEF Rows, Numbered
    <3>2. AdoptedTracked' /\ OneRow'
      BY <2>1, <2>3, <3>1 DEF Single, AdoptedTracked, OneRow
    <3>3. \A r \in Requests : \A v \in orphans[r] : v.n # w.n
      BY <2>3 DEF Rows, Numbered
    <3>4. OrphansOpen'
      BY <1>1, <2>1, <2>3, <3>3 DEF Quiet, Single, OrphansOpen
    <3> QED
      BY <3>2, <3>4 DEF Single
  <2> QED
    BY <1>1, <2>2, <2>3, QuietMoves DEF Rows
<1>2. ASSUME NEW s \in WsIds, RowsRemoved(s) PROVE Single'
  <2>1. OrphansOpen'
    BY <1>2 DEF RowsRemoved, Unlisted, OrphansOpen
  <2>2. AdoptedTracked'
    BY <1>2, OpsAssumption DEF RowsRemoved, tmux, Single, AdoptedTracked, Window
  <2>3. OneRow'
    BY <1>2, OpsAssumption DEF RowsRemoved, tmux, Single, OneRow, Window
  <2> QED
    BY <2>1, <2>2, <2>3 DEF Single
<1>3. ASSUME NEW s \in WsIds, NEW t \in TabIds, RowAdded(t, s) PROVE Single'
  <2>1. /\ tabRow[t] = NoWs
        /\ tabRow' = [tabRow EXCEPT ![t] = s]
        /\ adopted' = [adopted EXCEPT ![t] = 0]
        /\ windows' = windows
    BY <1>3 DEF RowAdded, AddTabRow, Rows, RowsValid, tmux
  <2>2. \A w \in windows : w.n # 0 /\ w.ws # NoWs
    BY OpsAssumption DEF Window
  <2>3. AdoptedTracked'
    BY <2>1, <2>2 DEF Single, AdoptedTracked
  <2>4. OneRow'
    BY <2>1, <2>2 DEF Single, OneRow, AdoptedTracked
  <2>5. OrphansOpen'
    BY <1>3 DEF RowAdded, Unlisted, OrphansOpen
  <2> QED
    BY <2>3, <2>4, <2>5 DEF Single
<1>4. ASSUME NEW t \in TabIds, RowRemoved(t) PROVE Single'
  <2>1. /\ tabRow' = [tabRow EXCEPT ![t] = NoWs]
        /\ windows' \subseteq windows
        /\ adopted' = adopted
    BY <1>4 DEF RowRemoved
  <2>2. \A w \in windows : w.ws # NoWs
    BY OpsAssumption DEF Window
  <2>3. \A w \in windows' : ~(w.name = t /\ tabRow[t] = w.ws)
    <3> SUFFICES ASSUME NEW w \in windows', w.name = t, tabRow[t] = w.ws PROVE FALSE
      OBVIOUS
    <3>1. w \in windows /\ w \notin Found(w.ws, t)
      BY <1>4, <2>2, <2>1 DEF RowRemoved
    <3>2. {v \in windows : v.ws = w.ws /\ v.name = t} = {w}
      BY <3>1 DEF NamesUnique
    <3> QED
      BY <3>1, <3>2 DEF Found
  <2>4. AdoptedTracked'
    BY <2>1, <2>2, <2>3 DEF Single, AdoptedTracked
  <2>5. OneRow'
    BY <2>1, <2>2 DEF Single, OneRow
  <2>6. OrphansOpen'
    BY <1>4 DEF RowRemoved, Unlisted, OrphansOpen
  <2> QED
    BY <2>4, <2>5, <2>6 DEF Single
<1>5. ASSUME NEW r \in Requests, NEW s \in WsIds, Scan(r, s) PROVE Single'
  <2>1. /\ UNCHANGED <<tabRow, adopted, windows, pc>>
        /\ orphans' = [orphans EXCEPT ![r] =
                         {w \in windows : w.ws = s /\ ~ \E t \in TabIds : t = w.name /\ tabRow[t] = s}]
    BY <1>5 DEF Scan, rows, tmux
  <2>2. AdoptedTracked' /\ OneRow'
    BY <2>1 DEF Single, AdoptedTracked, OneRow
  <2>3. \A w \in orphans'[r] : w \in windows /\ ~Tracked(w)
    BY <2>1
  <2>4. \A w \in orphans'[r] :
          /\ \A t \in TabIds : ~MadeFor(t, w)
          /\ \A v \in orphans'[r] : v.n = w.n => v = w
          /\ \A x \in windows : x.n = w.n => x = w
    BY <2>3 DEF Single, AdoptedTracked, Rows, Numbered
  <2>5. \A q \in Requests \ {r} : orphans'[q] = orphans[q]
    BY <2>1
  <2>6. OrphansOpen'
    BY <2>1, <2>3, <2>4, <2>5 DEF Single, OrphansOpen
  <2> QED
    BY <2>2, <2>6 DEF Single
<1>6. ASSUME NEW r \in Requests, NEW w \in orphans[r], NEW t \in TabIds,
             pc[r] = "scan", Adopted(r, w, t)
      PROVE  Single'
  <2>1. /\ tabRow' = [tabRow EXCEPT ![t] = w.ws]
        /\ adopted' = [adopted EXCEPT ![t] = w.n]
        /\ orphans' = [orphans EXCEPT ![r] = @ \ {w}]
        /\ pc' = pc
        /\ tabRow[t] = NoWs
    BY <1>6 DEF Adopted, AddTabRow, Rows, RowsValid
  <2>2. w \in Window /\ w.n # 0 /\ w.ws # NoWs
    BY OpsAssumption DEF Window
  <2>3. \A x \in windows : x.ws # NoWs
    BY OpsAssumption DEF Window
  <2>4. \A u \in TabIds : ~MadeFor(u, w)
    BY <1>6 DEF Single, OrphansOpen
  <2>5. \A x \in windows : x.n = w.n =>
          /\ x.ws = w.ws
          /\ x.name = w.name \/ Tracked(x)
          /\ ~(Tracked(x) /\ adopted[x.name] = 0)
    BY <1>6 DEF Single, OrphansOpen
  <2>6. \A x \in windows : x.n = w.n => x \in Found(w.ws, w.name) \/ Tracked(x)
    <3> SUFFICES ASSUME NEW x \in windows, x.ws = w.ws, x.name = w.name
                 PROVE  x \in Found(w.ws, w.name)
      BY <2>5
    <3>1. {v \in windows : v.ws = w.ws /\ v.name = w.name} = {x}
      BY DEF NamesUnique
    <3> QED
      BY <3>1 DEF Found
  <2>7. \A x \in windows' : \E y \in windows :
              /\ x.n = y.n /\ x.ws = y.ws
              /\ \/ x = y /\ y \notin Found(w.ws, w.name)
                 \/ x.name = t /\ y \in Found(w.ws, w.name) /\ y.ws = w.ws
    BY <1>6, AdoptedEffect DEF Rows
  <2>8. AdoptedTracked'
    <3> SUFFICES ASSUME NEW x \in windows', NEW u \in TabIds, MadeFor(u, x)'
                 PROVE  Tracked(x)'
      BY DEF AdoptedTracked
    <3>1. PICK y \in windows :
              /\ x.n = y.n /\ x.ws = y.ws
              /\ \/ x = y /\ y \notin Found(w.ws, w.name)
                 \/ x.name = t /\ y \in Found(w.ws, w.name) /\ y.ws = w.ws
      BY <2>7
    <3>2. CASE x.name = t /\ y.ws = w.ws
      BY <2>1, <3>1, <3>2
    <3>3. CASE x = y /\ y \notin Found(w.ws, w.name)
      <4>1. Tracked(y)
        BY <2>1, <2>6, <3>3 DEF Single, AdoptedTracked
      <4> QED
        BY <2>1, <2>3, <3>3, <4>1
    <3> QED
      BY <3>1, <3>2, <3>3
  <2>9. OneRow'
    <3> SUFFICES ASSUME NEW x \in windows', NEW u \in RowsOf(x)', NEW v \in RowsOf(x)'
                 PROVE  u = v
      BY DEF OneRow
    <3>1. PICK y \in windows :
              /\ x.n = y.n /\ x.ws = y.ws
              /\ \/ x = y /\ y \notin Found(w.ws, w.name)
                 \/ x.name = t /\ y \in Found(w.ws, w.name) /\ y.ws = w.ws
      BY <2>7
    <3>2. CASE y.n = w.n
      <4>1. \A z \in RowsOf(x)' : z = t
        BY <2>1, <2>2, <2>4, <2>5, <3>1, <3>2
      <4> QED
        BY <4>1
    <3>3. CASE y.n # w.n
      <4>1. \A z \in RowsOf(x)' : z \in RowsOf(y)
        BY <2>1, <2>2, <3>1, <3>3
      <4> QED
        BY <4>1 DEF Single, OneRow
    <3> QED
      BY <3>2, <3>3
  <2>10. OrphansOpen'
    <3>1. \A q \in Requests : pc[q] = "scan" => q = r
      BY <1>6 DEF Locked
    <3> SUFFICES ASSUME NEW o \in orphans'[r]
                 PROVE  /\ \A u \in TabIds : ~MadeFor(u, o)'
                        /\ \A p \in orphans'[r] : p.n = o.n => p = o
                        /\ \A x \in windows' : x.n = o.n =>
                              /\ x.ws = o.ws
                              /\ x.name = o.name \/ Tracked(x)'
                              /\ ~(Tracked(x)' /\ adopted'[x.name] = 0)
      BY <2>1, <3>1 DEF OrphansOpen
    <3>2. o \in orphans[r] /\ o # w /\ orphans'[r] \subseteq orphans[r]
      BY <2>1
    <3>3. /\ \A u \in TabIds : ~MadeFor(u, o)
          /\ \A p \in orphans[r] : p.n = o.n => p = o
          /\ \A x \in windows : x.n = o.n =>
                              /\ x.ws = o.ws
                              /\ x.name = o.name \/ Tracked(x)
                              /\ ~(Tracked(x) /\ adopted[x.name] = 0)
      BY <1>6, <3>2 DEF Single, OrphansOpen
    <3>4. o.n # w.n
      BY <3>2, <3>3
    <3>5. \A u \in TabIds : ~MadeFor(u, o)'
      BY <2>1, <3>3, <3>4
    <3>6. ASSUME NEW x \in windows', x.n = o.n
          PROVE  /\ x.ws = o.ws
                 /\ x.name = o.name \/ Tracked(x)'
                 /\ ~(Tracked(x)' /\ adopted'[x.name] = 0)
      <4>1. PICK y \in windows :
              /\ x.n = y.n /\ x.ws = y.ws
              /\ \/ x = y /\ y \notin Found(w.ws, w.name)
                 \/ x.name = t /\ y \in Found(w.ws, w.name) /\ y.ws = w.ws
        BY <2>7
      <4>2. CASE x.name = t /\ y.ws = w.ws
        BY <2>1, <2>2, <3>3, <3>6, <4>1, <4>2
      <4>3. CASE x = y
        BY <2>1, <2>2, <2>3, <3>3, <3>6, <4>1, <4>3
      <4> QED
        BY <4>1, <4>2, <4>3
    <3> QED
      BY <3>2, <3>3, <3>5, <3>6
  <2> QED
    BY <2>8, <2>9, <2>10 DEF Single
<1> QED
  BY <1>1, <1>2, <1>3, <1>4, <1>5, <1>6 DEF RowStep

LEMMA RowsInit == Init => Rows /\ Single
<1> SUFFICES ASSUME Init PROVE Rows /\ Single
  OBVIOUS
<1> USE DEF Init, Left
<1>1. windows \in {InitWindows, {}} /\ born = {w.n : w \in windows}
  OBVIOUS
<1>2. Numbered
  BY <1>1, OpsAssumption DEF Numbered
<1>3. RowsValid
  <2> SUFFICES ASSUME NEW t \in TabIds, tabRow[t] # NoWs PROVE Known(t) /\ HasRow(tabRow[t])
    BY DEF RowsValid
  <2>1. tabRow[t] \in WsIds
    OBVIOUS
  <2>2. PICK w \in windows : w.name = t /\ w.ws = tabRow[t]
    BY <2>1
  <2> QED
    BY <2>1, <2>2 DEF Known, HasRow
<1>4. \A w \in windows : w.n # 0
  BY <1>1, OpsAssumption DEF Window
<1>5. Single
  BY <1>4 DEF Single, AdoptedTracked, MadeFor, OneRow, RowsOf, OrphansOpen
<1> QED
  BY <1>2, <1>3, <1>5 DEF Rows

LEMMA RowsInvariance == Spec => [](Inv /\ Rows)
<1>1. Inv /\ Rows /\ [Next]_vars => Rows'
  BY RowsStep, StepKinds
<1> QED
  BY RowsInit, <1>1, Invariance, PTL DEF Spec

\* No window gets two tabs, whatever lists, creations, deletions and exits of shells
\* interleave, as long as tmux can tell the windows of a session by their names.
THEOREM NoSecondRow == Spec => OneRowPerWindow
<1>1. Inv /\ Rows /\ NamesUnique /\ Single /\ [Next]_vars => Single'
  BY SingleStep, StepKinds
<1>2. Single => \A w \in windows : Cardinality(RowsOf(w)) <= 1
  <2> SUFFICES ASSUME Single, NEW w \in windows PROVE Cardinality(RowsOf(w)) <= 1
    OBVIOUS
  <2>1. CASE RowsOf(w) = {}
    BY <2>1, FS_EmptySet
  <2>2. ASSUME NEW t \in RowsOf(w) PROVE Cardinality(RowsOf(w)) <= 1
    <3>1. RowsOf(w) = {t}
      BY <2>2 DEF Single, OneRow
    <3> QED
      BY <3>1, FS_Singleton
  <2> QED
    BY <2>1, <2>2
<1> QED
  BY RowsInit, RowsInvariance, <1>1, <1>2, PTL DEF Spec, OneRowPerWindow

-----------------------------------------------------------------------------
(***************************************************************************)
(* What is deleted stays deleted.                                          *)
(***************************************************************************)

\* WsGone and TabGone, with the requests that may arrive later: the second deletion
\* of a workspace, and lists, which go through workspaces.
WsFinal(s) ==
    /\ wsRow[s] = "deleted"
    /\ s \notin Sessions
    /\ \A r \in Requests : Busy(r) /\ pc[r] # "deleteRows" => ws[r] # s

TabFinal(t) ==
    /\ Known(t)
    /\ tabRow[t] = NoWs
    /\ \A w \in windows : w.name # t
    /\ \A r \in Requests : Busy(r) => /\ pc[r] # "scan" => t \notin todo[r]
                                      /\ \A w \in orphans[r] : w.name # t

LEMMA WsStaysFinal ==
    ASSUME Inv, Rows, NEW s \in WsIds, WsFinal(s), [Next]_vars
    PROVE  WsFinal(s)'
<1> USE DEF Inv, TypeOK, Sessions, Busy
<1>1. CASE UNCHANGED vars
  BY <1>1 DEF vars, rows, tmux, request, WsFinal
<1>2. ASSUME NEW w \in windows, ShellExits(w) PROVE WsFinal(s)'
  BY <1>2 DEF ShellExits, rows, request, WsFinal
<1>3. ASSUME NEW x \in WsIds, NEW f \in Foreign, OpenWindow(x, f) PROVE WsFinal(s)'
  BY <1>3 DEF OpenWindow, Create, rows, request, WsFinal
<1>4. s # NoWs /\ \A t \in TabIds : tabRow[t] # s
  BY OpsAssumption DEF Rows, RowsValid, HasRow, WsFinal
<1> USE DEF Begin, Step, Goto
<1>5. ASSUME NEW r \in Requests, NEW x \in WsIds, NEW t \in TabIds, CreateWorkspace(r, x, t)
      PROVE  WsFinal(s)'
  BY <1>5 DEF CreateWorkspace, tmux, WsFinal
<1>6. ASSUME NEW r \in Requests, NEW x \in WsIds, DeleteWorkspace(r, x) PROVE WsFinal(s)'
  BY <1>6 DEF DeleteWorkspace, rows, WsFinal
<1>7. ASSUME NEW r \in Requests, NEW x \in WsIds, RecreateWorkspace(r, x) PROVE WsFinal(s)'
  BY <1>7 DEF RecreateWorkspace, rows, tmux, HasRow, WsFinal
<1>8. ASSUME NEW r \in Requests, NEW x \in WsIds, CreateTab(r, x) PROVE WsFinal(s)'
  <2>1. UNCHANGED <<wsRow, tmux>>
    BY <1>8 DEF CreateTab, rows
  <2>2. PICK T, to : Begin(r, "createTab", x, T, to) /\ (HasRow(x) \/ to = "failed")
    BY <1>8 DEF CreateTab
  <2> QED
    BY <2>1, <2>2 DEF tmux, HasRow, WsFinal
<1>9. ASSUME NEW r \in Requests, NEW t \in TabIds, DeleteTab(r, t) PROVE WsFinal(s)'
  BY <1>9 DEF DeleteTab, WsFinal
<1>10. ASSUME NEW r \in Requests, NEW t \in TabIds, RecreateTab(r, t) PROVE WsFinal(s)'
  BY <1>4, <1>10 DEF RecreateTab, rows, tmux, WsFinal
<1>11. ASSUME NEW r \in Requests, ListWorkspaces(r) PROVE WsFinal(s)'
  BY <1>4, <1>11 DEF ListWorkspaces, rows, tmux, WsFinal
<1>12. ASSUME NEW r \in Requests, DeleteRows(r) PROVE WsFinal(s)'
  BY <1>12 DEF DeleteRows, tmux, WsFinal
<1>13. ASSUME NEW r \in Requests,
              KillSession(r) \/ ListTabs(r) \/ RecreateEnds(r) \/ Look(r)
       PROVE  WsFinal(s)'
  BY <1>13 DEF KillSession, ListTabs, RecreateEnds, Look, rows, tmux, WsFinal
<1>14. ASSUME NEW r \in Requests,
              Snapshot(r) \/ KillTab(r) \/ Probe(r) \/ ListEnds(r) \/ Panics(r)
       PROVE  WsFinal(s)'
  BY <1>14 DEF Snapshot, KillTab, Probe, ListEnds, Panics, rows, tmux, WsFinal
<1>15. ASSUME NEW r \in Requests, AddWindow(r) \/ AddSession(r) PROVE WsFinal(s)'
  <2>1. ws[r] # s /\ ws' = ws /\ wsRow' = wsRow
    BY <1>15 DEF AddWindow, AddSession, Add, rows, WsFinal
  <2>2. \E t \in todo[r] : Create(ws[r], t) \/ UNCHANGED tmux
    BY <1>15 DEF AddWindow, AddSession, Add
  <2>3. s \notin Sessions'
    BY <2>1, <2>2 DEF Create, tmux, WsFinal
  <2>4. \A q \in Requests : Busy(q)' /\ pc'[q] # "deleteRows" => Busy(q) /\ pc[q] # "deleteRows"
    BY <1>15 DEF AddWindow, AddSession, Add
  <2> QED
    BY <2>1, <2>3, <2>4 DEF WsFinal
<1>16. ASSUME NEW r \in Requests, NEW x \in WsIds, Scan(r, x) PROVE WsFinal(s)'
  BY <1>16 DEF Scan, rows, tmux, WsFinal
<1>17. ASSUME NEW r \in Requests, NEW w \in orphans[r], NEW t \in TabIds, Adopt(r, w, t)
       PROVE  WsFinal(s)'
  <2>1. Adopted(r, w, t)
    BY <1>17 DEF Adopt, ScanRows
  <2>2. \A x \in windows' : \E y \in windows : x.ws = y.ws
    BY <2>1, AdoptedEffect DEF Rows
  <2> QED
    BY <2>1, <2>2 DEF Adopted, WsFinal
<1> QED
  BY <1>1, <1>2, <1>3, <1>5, <1>6, <1>7, <1>8, <1>9, <1>10, <1>11, <1>12, <1>13, <1>14, <1>15,
     <1>16, <1>17 DEF Next, Arrival, Handling

LEMMA TabStaysFinal ==
    ASSUME Inv, Rows, NEW t \in TabIds, TabFinal(t), [Next]_vars
    PROVE  TabFinal(t)'
<1> USE DEF Inv, TypeOK, Busy
<1>1. CASE UNCHANGED vars
  BY <1>1 DEF vars, rows, tmux, request, TabFinal, Known
<1>2. ASSUME NEW w \in windows, ShellExits(w) PROVE TabFinal(t)'
  BY <1>2 DEF ShellExits, rows, request, TabFinal, Known
<1>3. ASSUME NEW x \in WsIds, NEW f \in Foreign, OpenWindow(x, f) PROVE TabFinal(t)'
  <2>1. f # t
    BY OpsAssumption
  <2> QED
    BY <1>3, <2>1 DEF OpenWindow, Create, rows, request, TabFinal, Known
<1> USE DEF Begin, Step, Goto
<1>5. ASSUME NEW r \in Requests, NEW x \in WsIds, NEW u \in TabIds, CreateWorkspace(r, x, u)
      PROVE  TabFinal(t)'
  <2>1. u # t /\ Known(t)' /\ tabRow'[t] = tabRow[t]
    BY <1>5, AddTabRowElsewhere DEF CreateWorkspace, TabFinal
  <2> QED
    BY <1>5, <2>1 DEF CreateWorkspace, tmux, TabFinal, ScanRows
<1>6. ASSUME NEW r \in Requests, NEW x \in WsIds, DeleteWorkspace(r, x) \/ RecreateWorkspace(r, x)
      PROVE  TabFinal(t)'
  BY <1>6 DEF DeleteWorkspace, RecreateWorkspace, rows, tmux, TabFinal, Known, ScanRows
<1>8. ASSUME NEW r \in Requests, NEW x \in WsIds, CreateTab(r, x) PROVE TabFinal(t)'
  <2>1. CASE HasRow(x)
    <3>1. PICK u \in TabIds : AddTabRow(u, x, 0) /\ Begin(r, "createTab", x, {u}, "probe")
      BY <1>8, <2>1 DEF CreateTab
    <3>2. u # t /\ Known(t)' /\ tabRow'[t] = tabRow[t]
      BY <3>1, AddTabRowElsewhere DEF TabFinal
    <3>3. UNCHANGED tmux
      BY <1>8 DEF CreateTab
    <3> QED
      BY <3>1, <3>2, <3>3 DEF tmux, TabFinal, ScanRows
  <2>2. CASE ~HasRow(x)
    <3>1. Begin(r, "createTab", x, {}, "failed") /\ UNCHANGED <<rows, tmux>>
      BY <1>8, <2>2 DEF CreateTab
    <3> QED
      BY <3>1 DEF rows, tmux, TabFinal, Known
  <2> QED
    BY <2>1, <2>2
<1>9. ASSUME NEW r \in Requests, NEW u \in TabIds, DeleteTab(r, u) PROVE TabFinal(t)'
  BY <1>9 DEF DeleteTab, TabFinal, Known
<1>10. ASSUME NEW r \in Requests, NEW u \in TabIds, RecreateTab(r, u) PROVE TabFinal(t)'
  BY <1>10 DEF RecreateTab, rows, tmux, TabFinal, Known, ScanRows
<1>11. ASSUME NEW r \in Requests, ListWorkspaces(r) PROVE TabFinal(t)'
  BY <1>11 DEF ListWorkspaces, rows, tmux, TabFinal, Known, ScanRows
<1>12. ASSUME NEW r \in Requests, DeleteRows(r) PROVE TabFinal(t)'
  BY <1>12 DEF DeleteRows, tmux, TabFinal, Known
<1>13. ASSUME NEW r \in Requests,
              KillSession(r) \/ RecreateEnds(r) \/ Look(r) \/ Snapshot(r) \/ KillTab(r)
       PROVE  TabFinal(t)'
  BY <1>13 DEF KillSession, RecreateEnds, Look, Snapshot, KillTab, rows, tmux, TabFinal, Known
<1>14. ASSUME NEW r \in Requests, Probe(r) \/ ListEnds(r) \/ Panics(r) PROVE TabFinal(t)'
  BY <1>14 DEF Probe, ListEnds, Panics, rows, tmux, TabFinal, Known
<1>15. ASSUME NEW r \in Requests, ListTabs(r) PROVE TabFinal(t)'
  <2>1. ws[r] # NoWs
    BY <1>15, OpsAssumption DEF ListTabs, Working
  <2> QED
    BY <1>15, <2>1 DEF ListTabs, rows, tmux, TabFinal, Known
<1>16. ASSUME NEW r \in Requests, AddWindow(r) \/ AddSession(r) PROVE TabFinal(t)'
  <2>1. t \notin todo[r]
    BY <1>16 DEF AddWindow, AddSession, Add, TabFinal
  <2>2. \E u \in todo[r] : /\ Create(ws[r], u) \/ UNCHANGED tmux
                           /\ todo' = [todo EXCEPT ![r] = IF kind[r] = "recreateWs" THEN @ \ {u} ELSE @]
    BY <1>16 DEF AddWindow, AddSession, Add
  <2>3. \A w \in windows' : w.name # t
    BY <2>1, <2>2 DEF Create, tmux, TabFinal
  <2>4. \A q \in Requests : /\ Busy(q)' => Busy(q)
                            /\ pc'[q] # "scan" => pc[q] # "scan"
                            /\ todo'[q] \subseteq todo[q]
    BY <1>16, <2>2 DEF AddWindow, AddSession, Add
  <2>5. UNCHANGED <<rows, orphans>>
    BY <1>16 DEF AddWindow, AddSession, Add
  <2> QED
    BY <2>3, <2>4, <2>5 DEF rows, TabFinal, Known
<1>17. ASSUME NEW r \in Requests, NEW x \in WsIds, Scan(r, x) PROVE TabFinal(t)'
  BY <1>17 DEF Scan, rows, tmux, TabFinal, Known
<1>18. ASSUME NEW r \in Requests, NEW w \in orphans[r], NEW u \in TabIds, Adopt(r, w, u)
       PROVE  TabFinal(t)'
  <2>1. Adopted(r, w, u)
    BY <1>18 DEF Adopt, ScanRows
  <2>2. u # t /\ Known(t)' /\ tabRow'[t] = tabRow[t]
    BY <2>1, AddTabRowElsewhere DEF Adopted, TabFinal
  <2>3. \A x \in windows' : x.name = u \/ x \in windows
    BY <2>1, AdoptedEffect DEF Rows
  <2> QED
    BY <2>1, <2>2, <2>3 DEF Adopted, TabFinal
<1> QED
  BY <1>1, <1>2, <1>3, <1>5, <1>6, <1>8, <1>9, <1>10, <1>11, <1>12, <1>13, <1>14, <1>15,
     <1>16, <1>17, <1>18 DEF Next, Arrival, Handling

\* No request of a browser whose list is stale brings back a session or a window of
\* something whose deletion nothing overlaps any more.
THEOREM DeletedForGood == Spec => DeletionIsFinal
<1>1. ASSUME NEW s \in WsIds
      PROVE  Spec => [](WsGone(s) => [](s \notin Sessions))
  <2>1. WsGone(s) => WsFinal(s)
    BY DEF WsGone, WsFinal
  <2>2. Inv /\ Rows /\ WsFinal(s) /\ [Next]_vars => WsFinal(s)'
    BY WsStaysFinal
  <2>3. WsFinal(s) => s \notin Sessions
    BY DEF WsFinal
  <2> QED
    BY <2>1, <2>2, <2>3, RowsInvariance, PTL DEF Spec
<1>2. ASSUME NEW t \in TabIds
      PROVE  Spec => [](TabGone(t) => [](tabRow[t] = NoWs /\ \A w \in windows : w.name # t))
  <2>1. TabGone(t) => TabFinal(t)
    BY DEF TabGone, TabFinal
  <2>2. Inv /\ Rows /\ TabFinal(t) /\ [Next]_vars => TabFinal(t)'
    BY TabStaysFinal
  <2>3. TabFinal(t) => tabRow[t] = NoWs /\ \A w \in windows : w.name # t
    BY DEF TabFinal
  <2> QED
    BY <2>1, <2>2, <2>3, RowsInvariance, PTL DEF Spec
<1> QED
  BY <1>1, <1>2 DEF DeletionIsFinal
=============================================================================
