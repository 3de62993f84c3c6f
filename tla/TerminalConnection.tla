------------------------- MODULE TerminalConnection -------------------------
(***************************************************************************)
(* What the server promises to the browsers that open /api/terminal, with  *)
(* no tmux, tasks, tokens or registry in sight.  A request is refused or   *)
(* opened; an open connection may report the exit of its pane, but only    *)
(* when the pane is really gone, and the report ends the connection; a     *)
(* connection that starts to close releases everything it holds.           *)
(***************************************************************************)
CONSTANT Connections

VARIABLES
    phase,     \* life cycle of each connection
    paneGone,  \* the connections whose pane no longer exists
    reported   \* the connections whose browser was told so

absVars == <<phase, paneGone, reported>>

ConnectionInit ==
    /\ phase = [c \in Connections |-> "idle"]
    /\ paneGone = {}
    /\ reported = {}

Move(c, from, to) ==
    /\ phase[c] \in from
    /\ phase' = [phase EXCEPT ![c] = to]

Refuse(c) == Move(c, {"idle"}, "refused") /\ UNCHANGED <<paneGone, reported>>

Open(c) == Move(c, {"idle"}, "open") /\ UNCHANGED <<paneGone, reported>>

PanesGo(C) ==
    /\ paneGone' = paneGone \cup C
    /\ UNCHANGED <<phase, reported>>

\* The browser learns that the pane exited: only of a pane that is gone.
Report(c) ==
    /\ c \in paneGone
    /\ Move(c, {"open", "closing"}, "closing")
    /\ reported' = reported \cup {c}
    /\ UNCHANGED paneGone

Close(c) == Move(c, {"open"}, "closing") /\ UNCHANGED <<paneGone, reported>>

\* The connection's process, session and socket are gone.  When its session was
\* the last one of a deleted workspace, the panes of others go with it.
Release(c, C) ==
    /\ Move(c, {"closing"}, "closed")
    /\ paneGone' = paneGone \cup C
    /\ UNCHANGED reported

ConnectionNext ==
    \/ \E c \in Connections : Refuse(c) \/ Open(c) \/ Report(c) \/ Close(c)
    \/ \E C \in SUBSET Connections : PanesGo(C) \/ \E c \in Connections : Release(c, C)

\* A connection that is closing is released in the end.
ConnectionSpec ==
    /\ ConnectionInit
    /\ [][ConnectionNext]_absVars
    /\ \A c \in Connections : WF_absVars(\E C \in SUBSET Connections : Release(c, C))
=============================================================================
