----------------------------- MODULE UpdateFeed -----------------------------
(***************************************************************************)
(* How browsers come to see what others rename, and what they do to the    *)
(* list meanwhile: the handlers of src/projects.rs that change names,      *)
(* order and categories, the broadcast channel and the stream of           *)
(* /api/events (src/web.rs), EventSource and fetchWorkspaces in the page   *)
(* (static/app.js).                                                        *)
(*                                                                         *)
(* Only renames are announced.  A browser drags, moves and deletes what it *)
(* has on display, which may long have changed.  Row accesses are behind   *)
(* one mutex and so atomic; adoption of windows is in WorkspaceOps, and    *)
(* how late answers to a fetch are told apart in NotesSync.                *)
(***************************************************************************)
EXTENDS ListRows, LogMirror

CONSTANTS
  Browsers,
  Http,        \* the task of /api/client-log
  Capacity,    \* batches the channel holds
  WireRoom,    \* events the connection takes that the browser has not seen
  FirstRows,   \* the rows at the start
  MaxRows,     \* bound: rows ever made, per table
  MaxRenames,  \* bound: renames
  MaxEdits,    \* bound: other changes
  MaxLosses,   \* bound: connections lost
  MaxLogs,     \* bound: reports to /api/client-log
  MaxEvents    \* bound: all of these together

ASSUME FeedAssumption ==
  /\ {Capacity, WireRoom} \subseteq Nat \ {0}
  /\ {MaxRenames, MaxEdits, MaxLosses, MaxLogs, MaxEvents} \subseteq Nat
  /\ Http \notin Browsers
  /\ Loggers = Browsers \cup {Http}

Tables == {"workspaces", "categories", "tabs"}

\* The fields of rows, and every category a workspace is in.
RowsOf(d) ==
  /\ DOMAIN d = Tables \cup {"last"}
  /\ \A row \in d.workspaces \cup d.categories :
       DOMAIN row = {"id", "order", "group", "name", "project"}
  /\ \A row \in d.workspaces : row.group \in Ids(d.categories) \cup {NoGroup}

\* Rows have different ids that were given out, and an order.
IsTable(rows, last) ==
  /\ IsFiniteSet(rows)
  /\ \A row \in rows :
       /\ DOMAIN row = {"id", "order", "group", "name", "project"}
       /\ row.id \in 1..last /\ row.order \in Nat
  /\ \A v, w \in rows : v # w => v.id # w.id

\* What an earlier run leaves.
ASSUME FirstRowsAssumption ==
  /\ RowsOf(FirstRows)
  /\ FirstRows.last \in [Tables -> Nat]
  /\ \A table \in Tables : IsTable(FirstRows[table], FirstRows.last[table])

VARIABLES
  db,
  unsent,  \* handlers that have changed a name and not yet sent the batch
  sent,    \* batches sent
  rx,      \* per browser: batches its receiver is past
  task,    \* per browser: its stream, "none" or "loop"
  wire,    \* per browser: events on their way
  get,     \* per browser: its newest fetch
  shown,   \* per browser: _workspaces and _categories
  count,   \* renames, edits, losses and logs so far
  saved    \* history: <<table, v, w>> where the newest drag of row v and that of
           \* row w is the same and put v before w

feedVars == <<unsent, sent, rx, task, wire>>

vars == <<db, feedVars, get, shown, count, saved, logVars>>

Below(what, max) ==
  /\ count[what] < max
  /\ count.renames + count.edits + count.losses + count.logs < MaxEvents
  /\ count' = [count EXCEPT ![what] = @ + 1]

Nothing == [workspaces |-> {}, categories |-> {}, tabs |-> {}]

\* What list_workspaces answers.
Listed == [table \in Tables |-> db[table]]

NoFetch == [at |-> "none", list |-> Nothing]
Asked   == [at |-> "asked", list |-> Nothing]

-----------------------------------------------------------------------------
(* Handlers that change a name *)

\* The lock is released before the batch is sent.
Renamed(new, displays) ==
  /\ Below("renames", MaxRenames)
  /\ db' = new
  /\ unsent' = unsent + 1
  /\ shown' = displays
  /\ UNCHANGED <<sent, rx, task, wire, get, saved, logVars>>

NewName == <<"given", count.renames>>

\* A browser renames what it has on display, and shows it so.
RenameWorkspace(b) ==
  \E row \in shown[b].workspaces :
    Renamed(rename_workspace(db, row.id, NewName),
            [shown EXCEPT ![b] = rename_workspace(@, row.id, NewName)])

UpdateTab(b) ==
  \E row \in shown[b].tabs :
    Renamed(update_workspace_tab(db, row.id, NewName),
            [shown EXCEPT ![b] = update_workspace_tab(@, row.id, NewName)])

\* A tool in a pane renames what the session or window of its pane is named
\* after, which may have lost its row.
RenameWorkspaceByPane ==
  \E id \in 1..db.last.workspaces : Renamed(rename_workspace(db, id, NewName), shown)

RenameTabByPane ==
  \E id \in 1..db.last.tabs : Renamed(update_workspace_tab(db, id, NewName), shown)

\* tx.send.
Send ==
  /\ unsent > 0
  /\ unsent' = unsent - 1
  /\ sent' = sent + 1
  /\ UNCHANGED <<db, rx, task, wire, get, shown, count, saved, logVars>>

-----------------------------------------------------------------------------
(* Handlers that change the rest *)

\* The request of browser b leaves new rows, local is what b then has on
\* display, and b fetches the list if the code does.
Edit(b, new, local, fetches) ==
  /\ Below("edits", MaxEdits)
  /\ db' = new
  /\ shown' = [shown EXCEPT ![b] = local]
  /\ get' = IF fetches THEN [get EXCEPT ![b] = Asked] ELSE get
  /\ UNCHANGED <<feedVars, logVars>>

Fetched(b, new) == Edit(b, new, shown[b], TRUE) /\ UNCHANGED saved

Room(table) == db.last[table] < MaxRows[table]

CreateCategory(b) ==
  /\ Room("categories")
  /\ Fetched(b, add_category(db, NewName))

RenameCategory(b) ==
  \E row \in shown[b].categories : Fetched(b, rename_category(db, row.id, NewName))

DeleteCategory(b) ==
  \E row \in shown[b].categories : Fetched(b, delete_category(db, row.id))

\* A workspace with one tab; the category is one the browser shows.  The page
\* sends no name.
CreateWorkspace(b) ==
  /\ Room("workspaces") /\ Room("tabs")
  /\ \E category \in Ids(shown[b].categories) \cup {NoGroup} :
       LET ws == NextId(db, "workspaces")
           one == add_workspace_tab(add_workspace(db, next_workspace_name(db, "ws")), ws, <<"shell", 0>>)
       IN Fetched(b, set_workspace_category(one, ws, category))

CreateTab(b) ==
  /\ Room("tabs")
  /\ \E row \in shown[b].workspaces :
       /\ row.id \in Ids(db.workspaces)
       /\ LET new == add_workspace_tab(db, row.id, <<"shell", 0>>)
          IN Edit(b, new, [shown[b] EXCEPT !.tabs = @ \cup (new.tabs \ db.tabs)], FALSE)
       /\ UNCHANGED saved

DeleteTab(b) ==
  \E row \in shown[b].tabs :
    /\ Edit(b, remove_workspace_tab(db, row.id), remove_workspace_tab(shown[b], row.id), FALSE)
    /\ UNCHANGED saved

DeleteWorkspace(b) ==
  \E row \in shown[b].workspaces :
    /\ Edit(b, remove_workspace(db, row.id), remove_workspace(shown[b], row.id), TRUE)
    /\ UNCHANGED saved

MoveWorkspace(b) ==
  \E row \in shown[b].workspaces, category \in Ids(shown[b].categories) \cup {NoGroup} :
    /\ Edit(b, set_workspace_category(db, row.id, category),
            set_workspace_category(shown[b], row.id, category), FALSE)
    /\ UNCHANGED saved

\* A drag saves an order of the rows of a group as the browser shows them.
Dragged(table, ids) ==
  saved' = {p \in saved : p[1] = table => {p[2], p[3]} \cap Range(ids) = {}}
           \cup UNION {{<<table, ids[i], ids[j]>> : j \in (i + 1)..Len(ids)} : i \in DOMAIN ids}

Orders(b, table, group) == SetToSeqs(Ids({row \in shown[b][table] : row.group = group}))

ReorderCategories(b) ==
  \E ids \in Orders(b, "categories", NoGroup) :
    /\ Edit(b, reorder_categories(db, ids), reorder_categories(shown[b], ids), FALSE)
    /\ Dragged("categories", ids)

ReorderWorkspaces(b) ==
  \E group \in {row.group : row \in shown[b].workspaces} :
    \E ids \in Orders(b, "workspaces", group) :
      /\ Edit(b, reorder_workspaces(db, ids), reorder_workspaces(shown[b], ids), FALSE)
      /\ Dragged("workspaces", ids)

ReorderTabs(b) ==
  \E group \in Ids(shown[b].workspaces) :
    \E ids \in Orders(b, "tabs", group) :
      /\ Edit(b, reorder_tabs(db, ids), reorder_tabs(shown[b], ids), FALSE)
      /\ Dragged("tabs", ids)

\* A browser that is not followed here deletes or moves rows.
EditedElsewhere(new) ==
  /\ Below("edits", MaxEdits)
  /\ db' = new
  /\ UNCHANGED <<feedVars, get, shown, saved, logVars>>

Elsewhere ==
  \/ \E row \in db.workspaces : EditedElsewhere(remove_workspace(db, row.id))
  \/ \E row \in db.tabs : EditedElsewhere(remove_workspace_tab(db, row.id))
  \/ \E row \in db.categories : EditedElsewhere(delete_category(db, row.id))
  \/ \E row \in db.workspaces, category \in Ids(db.categories) :
       EditedElsewhere(set_workspace_category(db, row.id, category))

-----------------------------------------------------------------------------
(* /api/events *)

\* EventSource connects, at first and after a loss.
Connect(b) ==
  /\ task[b] = "none"
  /\ task' = [task EXCEPT ![b] = "loop"]
  /\ rx' = [rx EXCEPT ![b] = sent]
  /\ wire' = [wire EXCEPT ![b] = <<"init">>]
  /\ UNCHANGED <<db, unsent, sent, get, shown, count, saved, logVars>>

\* The batches the channel still has are those after Oldest.
Oldest == Max({0, sent - Capacity})

\* Mutant: a receiver that lagged starts over with what comes next.
PastLag_next == sent

PastLag == Oldest

\* Mutant: nothing holds the stream back.
Receiving_eager(b) == task[b] = "loop" /\ Idle(b) /\ rx[b] < sent

\* The stream goes on when its connection has room.
Receiving(b) ==
  /\ task[b] = "loop"
  /\ Idle(b)
  /\ rx[b] < sent
  /\ Len(wire[b]) < WireRoom

Recv(b) ==
  /\ Receiving(b)
  /\ rx[b] >= Oldest
  /\ rx' = [rx EXCEPT ![b] = @ + 1]
  /\ wire' = [wire EXCEPT ![b] = Append(@, "update")]
  /\ UNCHANGED <<db, unsent, sent, task, get, shown, count, saved, logVars>>

\* It only logs the loss.
Lagged(b) ==
  /\ Receiving(b)
  /\ rx[b] < Oldest
  /\ rx' = [rx EXCEPT ![b] = PastLag]
  /\ Log(b)
  /\ UNCHANGED <<db, unsent, sent, task, wire, get, shown, count, saved>>

ClientLog ==
  /\ Below("logs", MaxLogs)
  /\ Log(Http)
  /\ UNCHANGED <<db, feedVars, get, shown, saved>>

Logging ==
  /\ LogThread \/ \E t \in Loggers : Tlog(t)
  /\ UNCHANGED <<db, feedVars, get, shown, count, saved>>

-----------------------------------------------------------------------------
(* The page *)

\* Both events make the page fetch the list.
SeesEvent(b) ==
  /\ wire[b] # <<>>
  /\ wire' = [wire EXCEPT ![b] = Tail(@)]
  /\ get' = [get EXCEPT ![b] = Asked]
  /\ UNCHANGED <<db, unsent, sent, rx, task, shown, count, saved, logVars>>

ServeGet(b) ==
  /\ get[b].at = "asked"
  /\ get' = [get EXCEPT ![b] = [at |-> "answered", list |-> Listed]]
  /\ UNCHANGED <<db, feedVars, shown, count, saved, logVars>>

GetReturns(b) ==
  /\ get[b].at = "answered"
  /\ shown' = [shown EXCEPT ![b] = get[b].list]
  /\ get' = [get EXCEPT ![b] = NoFetch]
  /\ UNCHANGED <<db, feedVars, count, saved, logVars>>

\* The browser loses its connections: a fetch under way fails, and what it was
\* to show is missing from the list.
Lost(b) ==
  /\ Below("losses", MaxLosses)
  /\ task[b] = "loop"
  /\ Idle(b)
  /\ task' = [task EXCEPT ![b] = "none"]
  /\ wire' = [wire EXCEPT ![b] = <<>>]
  /\ get' = [get EXCEPT ![b] = NoFetch]
  /\ shown' = IF get[b].at = "none" THEN shown ELSE [shown EXCEPT ![b] = Nothing]
  /\ UNCHANGED <<db, unsent, sent, rx, saved, logVars>>

-----------------------------------------------------------------------------
Init ==
  /\ db = FirstRows
  /\ unsent = 0
  /\ sent = 0
  /\ rx = [b \in Browsers |-> 0]
  /\ task = [b \in Browsers |-> "none"]
  /\ wire = [b \in Browsers |-> <<>>]
  /\ get = [b \in Browsers |-> NoFetch]
  /\ shown = [b \in Browsers |-> Nothing]
  /\ count = [renames |-> 0, edits |-> 0, losses |-> 0, logs |-> 0]
  /\ saved = {}
  /\ LogInit

Renames ==
  \/ \E b \in Browsers : RenameWorkspace(b) \/ UpdateTab(b)
  \/ RenameWorkspaceByPane
  \/ RenameTabByPane

Edits(b) ==
  \/ CreateCategory(b) \/ RenameCategory(b) \/ DeleteCategory(b)
  \/ CreateWorkspace(b) \/ CreateTab(b) \/ DeleteTab(b) \/ DeleteWorkspace(b)
  \/ MoveWorkspace(b)
  \/ ReorderCategories(b) \/ ReorderWorkspaces(b) \/ ReorderTabs(b)

Feed(b) == Connect(b) \/ Recv(b) \/ Lagged(b)

Page(b) == SeesEvent(b) \/ ServeGet(b) \/ GetReturns(b)

Next ==
  \/ Renames
  \/ Send
  \/ \E b \in Browsers : Edits(b) \/ Feed(b) \/ Page(b) \/ Lost(b)
  \/ Elsewhere
  \/ ClientLog
  \/ Logging

\* Handlers, streams and pages go on, and the connection is made again; the
\* console need never take a line.
Fairness ==
  /\ WF_vars(Send)
  /\ \A t \in Loggers : WF_vars(Tlog(t) /\ Logging)
  /\ \A b \in Browsers : WF_vars(Feed(b)) /\ WF_vars(Page(b))

Spec == Init /\ [][Next]_vars /\ Fairness

-----------------------------------------------------------------------------
(* Properties *)

TypeOK ==
  /\ db.last \in [Tables -> Nat]
  /\ \A table \in Tables : IsTable(db[table], db.last[table])
  /\ {unsent, sent} \subseteq Nat
  /\ \A b \in Browsers :
       /\ rx[b] \in 0..sent
       /\ task[b] \in {"none", "loop"}
       /\ Len(wire[b]) <= WireRoom
       /\ get[b].at \in {"none", "asked", "answered"}
  /\ LogTypeOK

\* Browsers save orders of lists that others have changed since, with rows that
\* are gone and without rows that are new; rows are moved, made and deleted in
\* between.  Two rows that a browser dragged into an order are listed in that order,
\* until another drag has one of them.
Precedes(s, v, w) == \A i, j \in DOMAIN s : s[i].id = v /\ s[j].id = w => i < j

OrderObeyed ==
  \A p \in saved :
    /\ p[1] = "categories" => Precedes(list_categories(db), p[2], p[3])
    /\ p[1] = "workspaces" => Precedes(list_workspaces(db), p[2], p[3])
    /\ p[1] = "tabs" => \A ws \in Ids(db.workspaces) : \A s \in list_workspace_tabs(db, ws) :
                          Precedes(s, p[2], p[3])

\* Nobody can put a workspace into a category that another browser has deleted,
\* where no list would show it.
CategoriesExist ==
  \A row \in db.workspaces : row.group \in Ids(db.categories) \cup {NoGroup}

\* What b shows has the names of the rows.
Current(b) ==
  \A table \in {"workspaces", "tabs"} : \A v \in shown[b][table], w \in db[table] :
    v.id = w.id => v.name = w.name

\* When renaming is over, every browser ends up with the names there are: though
\* the batch is sent after the lock is released, a slow stream loses batches,
\* connections are lost and made again, and the console stalls for ever.
RenamesShown == \A b \in Browsers : <>[]Current(b)

\* "test_next_workspace_name_increments": workspaces that were given no name get
\* different ones.
DefaultNamesDiffer ==
  \A v, w \in db.workspaces : (v.id # w.id /\ v.name[1] = "ws") => v.name # w.name
=============================================================================
