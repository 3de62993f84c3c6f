--------------------------- MODULE TerminalModes ----------------------------
(***************************************************************************)
(* One request to /api/terminal in either mode: ws_terminal dispatches on  *)
(* use_tmux.  With tmux the pane is captured and replayed while the writer *)
(* already takes input (how that connection ends is TerminalBridge);       *)
(* without it there is the direct bridge.                                  *)
(***************************************************************************)
EXTENDS DirectBridge, PaneReplay

CONSTANT MaxEvents  \* bound: lines, switches and messages of one behaviour

ASSUME EventsAssumption == MaxEvents \in Nat

vars == <<directVars, replayVars>>

\* Both tasks start when the captures are done.
Spawned == step \in {"replay", "live"}

Replaying ==
  /\ ReplayNext
  /\ IF writer = "none" /\ Spawned' THEN StartWriter
     ELSE UNCHANGED <<mode, writer, inputVars>>

ControlTypes(msg) == step # "query" /\ Type(msg)

ControlInput ==
  /\ \/ \E data \in Inputs : ControlTypes(Input(data))
     \/ \E size \in Sizes : ControlTypes(Resized(size))
     \/ Recv
     \/ \E n \in 1..Room : WriteSome(n)
     \/ Consume
  /\ UNCHANGED replayVars

Events == (pane.lines - Height) + pane.switches + Len(typed) - 1

\* With tmux.
Control ==
  /\ mode = "control"
  /\ Replaying \/ ControlInput
  /\ Events' <= MaxEvents
  /\ UNCHANGED <<handler, reader, child, socket>>

\* Without.
Direct ==
  /\ mode = "direct"
  /\ DirectNext
  /\ UNCHANGED replayVars

Init ==
  /\ mode \in {"control", "direct"}
  /\ DirectInit
  /\ ReplayInit

Next == Control \/ Direct

Spec == Init /\ [][Next]_vars /\ DirectFairness

\* The types of the two halves.
TypeOK == DirectTypeOK /\ InputTypeOK /\ ReplayTypeOK
=============================================================================
