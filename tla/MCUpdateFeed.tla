---------------------------- MODULE MCUpdateFeed ----------------------------
\* Instance of UpdateFeed for TLC.
EXTENDS UpdateFeed

\* Three workspaces, one with a tab, and a category.
SomeRows ==
  [workspaces |-> {Row(id, id - 1, NoGroup, <<"given", -1>>) : id \in 1..3},
   categories |-> {Row(1, 0, NoGroup, <<"given", -1>>)},
   tabs |-> {Row(1, 0, 1, <<"shell", 0>>)},
   last |-> [workspaces |-> 3, categories |-> 1, tabs |-> 1]]

Limits == [workspaces |-> 5, categories |-> 2, tabs |-> 3]
=============================================================================
