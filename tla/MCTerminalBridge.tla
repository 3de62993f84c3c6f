-------------------------- MODULE MCTerminalBridge --------------------------
(***************************************************************************)
(* Instances of TerminalBridge for TLC.                                    *)
(***************************************************************************)
EXTENDS TerminalBridge, TLC

CONSTANTS b1, b2, b3, ws1, ws2, t1, t2, t3, w1, w2, w3

\* One workspace.
OneWs == [t \in Tabs |-> ws1]

\* w1 and w3 carry the name t1 (w3 is the recreated tab), w2 is t2.
Names == [w \in Windows |-> IF w = w2 THEN t2 ELSE t1]
Ids == [w \in Windows |-> CASE w = w1 -> 0 [] w = w2 -> 1 [] w = w3 -> 2]

\* Three tabs, nobody looks at the third.
OwnNames == [w \in Windows |-> CASE w = w1 -> t1 [] w = w2 -> t2 [] w = w3 -> t3]

\* Two workspaces: w1 of ws1 and w2 of ws2 both are @0, w3 is @1 of ws2.
TwoWs == [t \in Tabs |-> IF t = t1 THEN ws1 ELSE ws2]
SameIds == [w \in Windows |-> IF w = w3 THEN 1 ELSE 0]
Asks3 == [b \in Bridges |-> CASE b = b1 -> t1 [] b = b2 -> t2 [] b = b3 -> t3]

\* b1 and b2 ask for the same tab, b3 for the other.
Asks == [b \in Bridges |-> IF b = b3 THEN t2 ELSE t1]

Init12 == {w1, w2}
Init123 == {w1, w2, w3}

\* b1 and b2 are the connections 1 and 10.
Plain == [b \in Bridges |-> {}]
OneTen == [b \in Bridges |-> IF b = b1 THEN Bridges \cap {b2} ELSE {}]

\* Requests for the same tab are alike (safety runs only).
Alike == Permutations({b1, b2})
=============================================================================
