--------------------------- MODULE MCWorkspaceOps ---------------------------
(***************************************************************************)
(* Instances of WorkspaceOps for TLC.                                      *)
(***************************************************************************)
EXTENDS WorkspaceOps

CONSTANTS r1, r2, r3, s1, s2, f1

\* tab-1 is a prefix of tab-10 and tab-11, and of no other name in use.
Digits == [x \in Names |-> IF x = 1 THEN {t \in TabIds : t > 9} ELSE {}]

One == {[n |-> 1, ws |-> s1, name |-> 1]}
OneTen == One \cup {[n |-> 2, ws |-> s1, name |-> 10]}
=============================================================================
