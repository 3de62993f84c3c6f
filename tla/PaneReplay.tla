----------------------------- MODULE PaneReplay -----------------------------
(***************************************************************************)
(* How a browser that connects comes to show what the pane shows: the rest *)
(* of ws_terminal and the start of the reader (src/terminal.rs) with       *)
(* capture_pane_with_cursor (src/tmux.rs).  The pane is queried and        *)
(* captured by separate tmux commands while the program in it goes on      *)
(* printing, and the control client attaches whenever it gets to it.       *)
(*                                                                         *)
(* The pane prints numbered lines below one another on a screen of Height  *)
(* rows that is full, and switches between its normal and its alternate    *)
(* screen; how these differ in content is left out.                        *)
(***************************************************************************)
EXTENDS Integers, Sequences, SequencesExt

CONSTANTS
  Height,    \* rows of the pane
  MaxLines   \* bound: lines, and switches, after the first screen

ASSUME ReplayAssumption ==
  /\ Height \in Nat \ {0}
  /\ MaxLines \in Nat

VARIABLES
  pane,       \* what the pane has printed: lines, and whether it is on the alternate screen
  step,       \* where the connection is
  attached,   \* the control client is attached
  queue,      \* what tmux has queued for the client
  got,        \* results of the queries and captures
  screen,     \* the terminal of the browser
  disturbed   \* history: what may be wrong: lines printed, or a switch made, while
              \* the pane was being looked at, or commands that failed

replayVars == <<pane, step, attached, queue, got, screen, disturbed>>

\* The last n elements of s.
LastRows(s, n) == SubSeq(s, Len(s) - n + 1, Len(s))

-----------------------------------------------------------------------------
(* The pane and tmux *)

\* Output reaches the client if it is attached.
Emit(item) == queue' = IF attached THEN Append(queue, item) ELSE queue

\* A line is seen twice, once, or not at all, depending on which of attachment
\* and captures come before it, once one of them has and until all have.
Looking ==
  /\ attached \/ step \in {"visible", "cursor", "replay", "live"}
  /\ ~(attached /\ step \in {"cursor", "replay", "live"})

\* A switch is missed between the query and the attachment.
Unwatched == step # "query" /\ ~attached

PrintLine ==
  /\ pane.lines < Height + MaxLines
  /\ pane' = [pane EXCEPT !.lines = @ + 1]
  /\ Emit([line |-> pane.lines + 1])
  /\ disturbed' = IF Looking THEN disturbed \cup {"line"} ELSE disturbed
  /\ UNCHANGED <<step, attached, got, screen>>

SwitchScreen ==
  /\ pane.switches < MaxLines
  /\ pane' = [pane EXCEPT !.alt = ~@, !.switches = @ + 1]
  /\ Emit([alt |-> ~pane.alt])
  /\ disturbed' = IF Unwatched THEN disturbed \cup {"switch"} ELSE disturbed
  /\ UNCHANGED <<step, attached, got, screen>>

\* The spawned client gets its turn; tmux sends it what is printed from now on.
AttachClient ==
  /\ step \notin {"query", "spawn"}
  /\ ~attached
  /\ attached' = TRUE
  /\ UNCHANGED <<pane, step, queue, got, screen, disturbed>>

-----------------------------------------------------------------------------
(* ws_terminal *)

Rows(n) == [i \in 1..n |-> i]

Goto(from, to) == step = from /\ step' = to

\* is_alternate_screen, before the client is started.
QueryScreen ==
  /\ Goto("query", "spawn")
  /\ got' = [got EXCEPT !.alt = pane.alt]
  /\ UNCHANGED <<pane, attached, queue, screen, disturbed>>

SpawnClient ==
  /\ Goto("spawn", "scrollback")
  /\ UNCHANGED <<pane, attached, queue, got, screen, disturbed>>

\* capture-pane -S -: the history and the visible rows.
CaptureScrollback ==
  /\ Goto("scrollback", "visible")
  /\ got' = [got EXCEPT !.all = Rows(pane.lines)]
  /\ UNCHANGED <<pane, attached, queue, screen, disturbed>>

\* capture-pane: the visible rows.
CaptureVisible ==
  /\ Goto("visible", "cursor")
  /\ got' = [got EXCEPT !.visible = LastRows(Rows(pane.lines), Height),
                        !.first = attached]
  /\ UNCHANGED <<pane, attached, queue, screen, disturbed>>

\* Mutant: off by one when it takes the visible lines off the history.
assemble_capture_output_long(all, visible, height) ==
  LET sb_count == IF Len(all) >= height THEN Len(all) - height + 1 ELSE 0
  IN [scrollback |-> SubSeq(all, 1, sb_count), rows |-> visible]

\* The history without its last height lines goes into the scrollback of the
\* browser, the visible rows are painted over its screen.
assemble_capture_output(all, visible, height) ==
  LET sb_count == IF Len(all) > height THEN Len(all) - height ELSE 0
  IN [scrollback |-> SubSeq(all, 1, sb_count), rows |-> visible]

\* The cursor query, which also tells the height.  (Should it fail, 24 is taken.)
QueryCursor ==
  /\ Goto("cursor", "replay")
  /\ got' = [got EXCEPT !.content = assemble_capture_output(got.all, got.visible, Height)]
  /\ UNCHANGED <<pane, attached, queue, screen, disturbed>>

\* A tmux command fails.  The first query then counts as "no alternate screen",
\* a missing history is left out, without the rest nothing is replayed.
CommandFails ==
  /\ \/ Goto("query", "spawn") /\ got' = [got EXCEPT !.alt = FALSE]
     \/ Goto("scrollback", "visible") /\ got' = [got EXCEPT !.all = <<>>]
     \/ Goto("visible", "replay") /\ got' = got
     \/ Goto("cursor", "replay") /\ got' = got
  /\ disturbed' = disturbed \cup {"line", "switch"}
  /\ UNCHANGED <<pane, attached, queue, screen>>

-----------------------------------------------------------------------------
(* The reader *)

\* Mutant: replays the content but leaves the browser on its normal screen.
Replayed_normal ==
  IF got.content = <<>> THEN screen ELSE
  [screen EXCEPT !.scrollback = got.content.scrollback, !.rows = got.content.rows]

\* The browser after the replay: switched to the alternate screen first.
Replayed ==
  IF got.content = <<>> THEN [screen EXCEPT !.alt = got.alt]
  ELSE [scrollback |-> got.content.scrollback, rows |-> got.content.rows, alt |-> got.alt]

Replay ==
  /\ Goto("replay", "live")
  /\ screen' = Replayed
  /\ UNCHANGED <<pane, attached, queue, got, disturbed>>

\* A new line pushes the top row into the scrollback.
Show(item) ==
  IF "line" \in DOMAIN item
  THEN [screen EXCEPT
         !.scrollback = Append(@, Head(screen.rows)),
         !.rows = Append(Tail(@), item.line)]
  ELSE [screen EXCEPT !.alt = item.alt]

\* Mutant: the reader forwards before it replays.
MayForward_early == step \in {"replay", "live"}

MayForward == step = "live"

Forward ==
  /\ MayForward
  /\ queue # <<>>
  /\ screen' = Show(Head(queue))
  /\ queue' = Tail(queue)
  /\ UNCHANGED <<pane, step, attached, got, disturbed>>

-----------------------------------------------------------------------------
ReplayInit ==
  /\ \E alt \in BOOLEAN :
       pane = [lines |-> Height, alt |-> alt, switches |-> 0]
  /\ step = "query"
  /\ attached = FALSE
  /\ queue = <<>>
  /\ got = [alt |-> FALSE, all |-> <<>>, visible |-> <<>>, content |-> <<>>,
            first |-> FALSE]
  /\ screen = [scrollback |-> <<>>, rows |-> [i \in 1..Height |-> 0], alt |-> FALSE]
  /\ disturbed = {}

ReplayNext ==
  \/ PrintLine
  \/ SwitchScreen
  \/ AttachClient
  \/ QueryScreen
  \/ SpawnClient
  \/ CaptureScrollback
  \/ CaptureVisible
  \/ QueryCursor
  \/ CommandFails
  \/ Replay
  \/ Forward

-----------------------------------------------------------------------------
(* Properties *)

ReplayTypeOK ==
  /\ pane.lines \in Height..Height + MaxLines
  /\ step \in {"query", "spawn", "scrollback", "visible", "cursor", "replay", "live"}
  /\ screen.rows \in [1..Height -> 0..pane.lines]
  /\ queue # <<>> => attached
  /\ disturbed \subseteq {"line", "switch"}

CaughtUp == step = "live" /\ attached /\ queue = <<>>

\* A browser that has caught up shows every line once and in order, scrollback
\* and screen, unless a line was printed while the captures and the attachment
\* were under way; and it is on the screen the pane is on, unless the pane
\* switched between the query and the attachment.  Only then, or when a command
\* fails, can "this restores both the visible screen and scrollback" fail.
RestoredUnlessRaced ==
  CaughtUp =>
    /\ "line" \notin disturbed => screen.scrollback \o screen.rows = Rows(pane.lines)
    /\ "switch" \notin disturbed => screen.alt = pane.alt

\* A client that attached before the visible rows were captured may repeat
\* lines, but none that the pane shows is missing.
AttachedFirstLosesNothing ==
  (CaughtUp /\ got.first /\ got.content # <<>>) =>
    ToSet(LastRows(Rows(pane.lines), Height)) \subseteq ToSet(screen.scrollback \o screen.rows)
=============================================================================
