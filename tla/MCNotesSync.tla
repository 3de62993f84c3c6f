---------------------------- MODULE MCNotesSync ----------------------------
(***************************************************************************)
(* Instances of NotesSync for TLC.                                         *)
(***************************************************************************)
EXTENDS NotesSync

CONSTANTS b1, b2, e, x, y, s1, s2

\* The first page does everything twice, a second one once.
TwiceAndOnce == [b \in Browsers |-> IF b = b1 THEN 2 ELSE 1]
Once == [b \in Browsers |-> 1]
=============================================================================
