------------------------------ MODULE ListRows ------------------------------
(***************************************************************************)
(* The rows behind the list of workspaces (src/db.rs): workspaces,         *)
(* categories and tabs, each with a sort_order.  A row is [id, order,      *)
(* group, name, project]; the group of a workspace is its category, that   *)
(* of a tab its workspace.  Statements that match no row do nothing, and   *)
(* the functions swallow the errors of the others.                         *)
(***************************************************************************)
EXTENDS Integers, Sequences, FiniteSetsExt, SequencesExt

NoGroup == 0    \* NULL

Row(id, order, group, name) ==
  [id |-> id, order |-> order, group |-> group, name |-> name, project |-> ""]

Ids(rows) == {row.id : row \in rows}

\* UPDATE ... SET field = value WHERE id.
Updated(rows, id, field, value) ==
  {IF row.id = id THEN [row EXCEPT ![field] = value] ELSE row : row \in rows}

-----------------------------------------------------------------------------
(* Lists: ORDER BY sort_order, id *)

Before(a, b) == a.order < b.order \/ (a.order = b.order /\ a.id < b.id)

\* The first row has none before it, the second one, and so on.
Place(rows, row) == Cardinality({other \in rows : Before(other, row)}) + 1

Sorted(rows) == [i \in 1..Cardinality(rows) |-> CHOOSE row \in rows : Place(rows, row) = i]

list_categories(db) == Sorted(db.categories)

list_workspaces(db) == Sorted(db.workspaces)

\* Tabs are ordered by sort_order alone: any order of equal ones.
list_workspace_tabs(db, ws) ==
  LET tabs == {tab \in db.tabs : tab.group = ws}
  IN {s \in SetToSeqs(tabs) : \A i, j \in DOMAIN s : i < j => s[i].order <= s[j].order}

-----------------------------------------------------------------------------
(* New rows: AUTOINCREMENT ids, the highest order plus one *)

NextId(db, table) == db.last[table] + 1

NextOrder(rows) == IF rows = {} THEN 0 ELSE Max({row.order : row \in rows}) + 1

Inserted(db, table, row) ==
  [db EXCEPT ![table] = @ \cup {row}, !.last[table] = row.id]

add_category(db, name) ==
  Inserted(db, "categories",
    Row(NextId(db, "categories"), NextOrder(db.categories), NoGroup, name))

add_workspace(db, name) ==
  Inserted(db, "workspaces",
    Row(NextId(db, "workspaces"), NextOrder(db.workspaces), NoGroup, name))

add_workspace_tab(db, ws, name) ==
  Inserted(db, "tabs",
    Row(NextId(db, "tabs"), NextOrder({tab \in db.tabs : tab.group = ws}), ws, name))

\* "{project}-n", one more than the highest of the project.
next_workspace_name(db, project) ==
  LET numbers == {row.name[2] : row \in {r \in db.workspaces :
                                           r.project = project /\ r.name[1] = project}}
  IN <<project, Max(numbers \cup {0}) + 1>>

-----------------------------------------------------------------------------
(* Names, order and categories *)

Rename(db, table, id, name) ==
  [db EXCEPT ![table] = Updated(@, id, "name", name)]

rename_category(db, id, name)         == Rename(db, "categories", id, name)
rename_workspace(db, id, name)        == Rename(db, "workspaces", id, name)
update_workspace_tab(db, id, name)    == Rename(db, "tabs", id, name)

\* Mutant: ends at the first id that is gone.
Places_stopping(rows, ids) ==
  LET gone == {i \in DOMAIN ids : ids[i] \notin Ids(rows)}
  IN IF gone = {} THEN ids ELSE SubSeq(ids, 1, Min(gone) - 1)

Places(rows, ids) == ids

\* The i-th id gets order i - 1, whichever other rows there are.
Reordered(rows, ids) ==
  LET places == Places(rows, ids)
      Order(row) == CHOOSE i \in DOMAIN places : places[i] = row.id
  IN {IF row.id \in Range(places) THEN [row EXCEPT !.order = Order(row) - 1] ELSE row :
       row \in rows}

reorder_categories(db, ids) == [db EXCEPT !.categories = Reordered(@, ids)]
reorder_workspaces(db, ids) == [db EXCEPT !.workspaces = Reordered(@, ids)]
reorder_tabs(db, ids)       == [db EXCEPT !.tabs = Reordered(@, ids)]

\* Mutant: any id is written.
Exists_unchecked(db, category) == TRUE

\* What the foreign key of category_id asks for.
Exists(db, category) == category \in Ids(db.categories) \cup {NoGroup}

set_workspace_category(db, ws, category) ==
  IF Exists(db, category)
  THEN [db EXCEPT !.workspaces = Updated(@, ws, "group", category)]
  ELSE db

\* Its workspaces become uncategorised first.
delete_category(db, id) ==
  [db EXCEPT
    !.workspaces = {IF row.group = id THEN [row EXCEPT !.group = NoGroup] ELSE row : row \in @},
    !.categories = {row \in @ : row.id # id}]

remove_workspace_tab(db, id) == [db EXCEPT !.tabs = {tab \in @ : tab.id # id}]

remove_workspace(db, id) ==
  [db EXCEPT !.tabs = {tab \in @ : tab.group # id},
             !.workspaces = {row \in @ : row.id # id}]
=============================================================================
