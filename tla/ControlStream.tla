--------------------------- MODULE ControlStream ----------------------------
(***************************************************************************)
(* What a pane prints on its way to the browser: tmux puts it in %output   *)
(* lines wherever it likes, between lines of other kinds, the PTY hands    *)
(* these on in chunks of any size, and the reader of spawn_cc_bridge       *)
(* (src/terminal.rs) feeds them to CcReader (src/tmux_cc.rs) and forwards  *)
(* the events.                                                             *)
(***************************************************************************)
EXTENDS ControlCodec

CONSTANTS
  Pane, OtherPane,     \* pane ids, symbols above those of ControlCodec
  Window, OtherWindow, \* window ids, symbols above those of ControlCodec
  Pieces,              \* byte sequences the application may write
  Texts,               \* byte sequences of titles and of another pane's output
  MaxPieces,           \* bound: writes of the application
  MaxCuts,             \* bound: lines before tmux takes all that is pending
  MaxNotices,          \* bound: lines tmux sends that are no output of Pane
  Backlog              \* tmux waits while the PTY holds more symbols

ASSUME StreamAssumption ==
  /\ Pane # OtherPane /\ Window # OtherWindow
  /\ {Pane, OtherPane, Window, OtherWindow} \subseteq Nat \ (0..307)
  /\ Pieces \cup Texts \subseteq Seq(0..255)
  /\ {MaxPieces, MaxCuts, MaxNotices, Backlog} \subseteq Nat

VARIABLES
  pieces,   \* number of writes so far
  pending,  \* bytes written and not yet taken by tmux
  said,     \* history: the lines tmux sent, before encoding
  pipe,     \* symbols in the PTY
  r,        \* the CcReader
  last_alt_screen,
  sent      \* history: messages to the browser

vars == <<pieces, pending, said, pipe, r, last_alt_screen, sent>>

-----------------------------------------------------------------------------
(* tmux *)

\* tmux escapes control characters and the backslash as three octal digits.
EncodeByte(b) ==
  IF b < 32 \/ b = BACKSLASH
  THEN <<BACKSLASH, 48 + (b \div 64), 48 + ((b \div 8) % 8), 48 + (b % 8)>>
  ELSE <<b>>
Encode(data) == FlattenSeq([i \in DOMAIN data |-> EncodeByte(data[i])])

\* alt is what is_alternate_screen answered before the client was started.
Hello(dcs, alt)    == [kind |-> "hello", dcs |-> dcs, alt |-> alt]
Output(pane, data) == [kind |-> "output", pane |-> pane, data |-> data]
Title(pane, text)  == [kind |-> "title", pane |-> pane, data |-> text]
Unlinked(window)   == [kind |-> "unlinked", window |-> window]
WindowClose        == [kind |-> "close"]
Exit               == [kind |-> "exit"]

Body(line) ==
  CASE line.kind = "hello"    -> (IF line.dcs THEN DCS ELSE <<>>) \o BEGIN
    [] line.kind = "output"   -> <<OUTPUT, line.pane, SPACE>> \o Encode(line.data)
    [] line.kind = "title"    -> <<TITLE, line.pane, SPACE>> \o line.data
    [] line.kind = "unlinked" -> <<UNLINKED, line.window>>
    [] line.kind = "close"    -> <<CLOSED, Window>>
    [] line.kind = "exit"     -> <<EXIT>>
Wire(line) == Body(line) \o CRLF

\* tmux takes no control characters into a title.
Titles == {text \in Texts : \A i \in DOMAIN text : text[i] >= 32}
Notices ==
  {Output(OtherPane, text) : text \in Texts} \cup
  {Title(pane, text) : pane \in {Pane, OtherPane}, text \in Titles} \cup
  {Unlinked(Window), Unlinked(OtherWindow), WindowClose, Exit}

\* The output of the pane, line by line.
IsOurs(line) == line.kind = "output" /\ line.pane = Pane
Ours == FlattenSeq([k \in DOMAIN said |->
          IF IsOurs(said[k]) THEN <<said[k].data>> ELSE <<>>])

Say(line) ==
  /\ Len(pipe) <= Backlog
  /\ said' = Append(said, line)
  /\ pipe' = pipe \o Wire(line)

\* The application writes.
Write(piece) ==
  /\ pieces < MaxPieces
  /\ pieces' = pieces + 1
  /\ pending' = pending \o piece
  /\ UNCHANGED <<said, pipe, r, last_alt_screen, sent>>

\* tmux takes some of it and puts it in one line.
TakeOutput(n) ==
  /\ n = Len(pending) \/ Len(Ours) < MaxCuts
  /\ Say(Output(Pane, SubSeq(pending, 1, n)))
  /\ pending' = SubSeq(pending, n + 1, Len(pending))
  /\ UNCHANGED <<pieces, r, last_alt_screen, sent>>

\* Another notification.
Notify(line) ==
  /\ Len(said) - 1 - Len(Ours) < MaxNotices
  /\ Say(line)
  /\ UNCHANGED <<pieces, pending, r, last_alt_screen, sent>>

-----------------------------------------------------------------------------
(* CcReader *)

\* Mutant: looks for the two bytes of a line end separately.
find_crlf_lone(buf) == Position(buf, <<CR>>)

find_crlf(buf) == Position(buf, CRLF)

\* Until the first %begin was seen the DCS is cut out of the buffer.
feed(reader, chunk) ==
  LET buf   == reader.line_buf \o chunk
      dcs   == Position(buf, DCS)
      clean == IF ~reader.dcs_stripped /\ dcs > 0
               THEN SubSeq(buf, 1, dcs - 1) \o SubSeq(buf, dcs + Len(DCS), Len(buf))
               ELSE buf
  IN [reader EXCEPT
       !.line_buf = clean,
       !.dcs_stripped = @ \/ Position(clean, BEGIN) > 0]

\* The pane and the value of "%output <pane> <value>"; the same for titles.
Field(line) ==
  LET space == Position(line, <<SPACE>>)
  IN [pane |-> SubSeq(line, 2, space - 1), value |-> SubSeq(line, space + 1, Len(line))]

\* Mutant: any bytes will do.
Valid_lossy(text) == TRUE

Valid(text) == \A i \in DOMAIN text : text[i] # 255    \* UTF-8

NoEvent == [kind |-> "none"]

\* What next_event makes of one line, given the state of the alternate screen
\* after it.
EventOf(line, alt) ==
  LET word  == line[1]
      field == Field(line)
      mine  == field.pane = <<Pane>>
      data  == filter_escapes(decode_output(field.value))
  IN CASE line = <<>> -> NoEvent
       [] line # <<>> /\ word = OUTPUT /\ mine /\ data # <<>> ->
            [kind |-> "Output", data |-> data, alt |-> alt]
       [] line # <<>> /\ word = EXIT -> [kind |-> "Exit"]
       [] line # <<>> /\ word = TITLE /\ mine /\ Valid(field.value) ->
            [kind |-> "PaneTitleChanged", title |-> field.value]
       [] line # <<>> /\ word = UNLINKED /\ line[2] = Window -> [kind |-> "WindowClosed"]
       [] line # <<>> /\ word = UNLINKED /\ line[2] # Window -> [kind |-> "OtherWindowClosed"]
       [] OTHER -> NoEvent

AltAfter(line, alt) ==
  IF line # <<>> /\ line[1] = OUTPUT /\ Field(line).pane = <<Pane>>
  THEN scan_alternate_screen(alt, decode_output(Field(line).value))
  ELSE alt

-----------------------------------------------------------------------------
(* The reader of the bridge *)

\* The PTY is readable: one read of at most the buffer, then feed.  The loop
\* ends with Exit and WindowClosed.
Read(n) ==
  /\ ~r.saw_exit
  /\ find_crlf(r.line_buf) = 0
  /\ r' = feed(r, SubSeq(pipe, 1, n))
  /\ pipe' = SubSeq(pipe, n + 1, Len(pipe))
  /\ UNCHANGED <<pieces, pending, said, last_alt_screen, sent>>

\* Messages for an event; a change of the alternate screen is told after the
\* output that made it.
Messages(event) ==
  CASE event.kind = "Output" ->
         <<[type |-> "binary", data |-> event.data]>> \o
         (IF event.alt # last_alt_screen
          THEN <<[type |-> "altscreen", active |-> event.alt]>> ELSE <<>>)
    [] event.kind = "PaneTitleChanged" -> <<[type |-> "pane_title", title |-> event.title]>>
    [] event.kind = "WindowClosed"     -> <<[type |-> "pane_exit"]>>
    [] OTHER -> <<>>

\* next_event takes one line off the buffer, and its event is forwarded.  (The
\* window_exists query after Exit is part of TerminalBridge.)
NextLine ==
  LET end   == find_crlf(r.line_buf)
      line  == SubSeq(r.line_buf, 1, end - 1)
      alt   == AltAfter(line, r.alternate_screen)
      event == EventOf(line, alt)
  IN /\ ~r.saw_exit
     /\ end > 0
     /\ r' = [r EXCEPT
                !.line_buf = SubSeq(@, end + 2, Len(@)),
                !.alternate_screen = alt,
                !.saw_exit = event.kind \in {"Exit", "WindowClosed"}]
     /\ last_alt_screen' = IF event.kind = "Output" THEN alt ELSE last_alt_screen
     /\ sent' = sent \o Messages(event)
     /\ UNCHANGED <<pieces, pending, said, pipe>>

-----------------------------------------------------------------------------
Init ==
  /\ pieces = 0
  /\ pending = <<>>
  /\ \E dcs, alt \in BOOLEAN :
       /\ said = <<Hello(dcs, alt)>>
       /\ pipe = Wire(Hello(dcs, alt))
       /\ r = [line_buf |-> <<>>, dcs_stripped |-> FALSE, saw_exit |-> FALSE,
               alternate_screen |-> alt]
       /\ last_alt_screen = alt
  /\ sent = <<>>

Next ==
  \/ \E piece \in Pieces : Write(piece)
  \/ \E n \in 1..Len(pending) : TakeOutput(n)
  \/ \E line \in Notices : Notify(line)
  \/ \E n \in 1..Len(pipe) : Read(n)
  \/ NextLine

Spec == Init /\ [][Next]_vars

-----------------------------------------------------------------------------
(* Properties *)

\* Text frames are UTF-8, whatever titles panes have.
IsText(text) == \A i \in DOMAIN text : text[i] < 255

TypeOK ==
  /\ pieces \in 0..MaxPieces
  /\ pending \in Seq(0..255)
  /\ r.line_buf \in Seq(Nat) /\ pipe \in Seq(Nat)
  /\ {r.dcs_stripped, r.saw_exit, r.alternate_screen, last_alt_screen} \subseteq BOOLEAN
  /\ \A i \in DOMAIN sent :
       CASE sent[i].type = "binary"     -> sent[i].data \in Seq(0..255)
         [] sent[i].type = "altscreen"  -> sent[i].active \in BOOLEAN
         [] sent[i].type = "pane_title" -> IsText(sent[i].title)
         [] OTHER                       -> sent[i].type = "pane_exit"

\* The lines whose end the reader has passed: every line still under way has
\* its line feed in the pipe or in the buffer.
Passed == Len(said) - Cardinality({i \in DOMAIN pipe : pipe[i] = LF})
                    - Cardinality({i \in DOMAIN r.line_buf : r.line_buf[i] = LF})

\* Data without the erasures of the scrollback that no erasure of the display
\* immediately precedes.
Cleaned(data) ==
  LET lone == {i \in DOMAIN data : /\ At(data, i, EraseScrollback)
                                   /\ ~(i > 4 /\ At(data, i - 4, EraseDisplay))}
  IN FlattenSeq([j \in DOMAIN data |->
       IF \E i \in lone : j \in i..i + 3 THEN <<>> ELSE <<data[j]>>])

\* The alternate screen after data: the last switch counts.
Switches(data) == {i \in DOMAIN data : \E w \in AltOn \cup AltOff : At(data, i, w)}
AltIn(data, alt) ==
  IF Switches(data) = {} THEN alt
  ELSE \E w \in AltOn : At(data, Max(Switches(data)), w)

\* ... and after the n-th line.
AltAt(n) ==
  LET switching == {k \in 1..n : IsOurs(said[k]) /\ Switches(said[k].data) # {}}
  IN IF switching = {} THEN said[1].alt
     ELSE AltIn(said[Max(switching)].data, said[1].alt)

\* What the browser should hear of the n-th line, however it arrived.
Meaning(n) ==
  LET line == said[n]
  IN CASE IsOurs(line) ->
            (IF Cleaned(line.data) = <<>> THEN <<>>
             ELSE <<[type |-> "binary", data |-> Cleaned(line.data)]>>) \o
            (IF AltAt(n) = AltAt(n - 1) THEN <<>>
             ELSE <<[type |-> "altscreen", active |-> AltAt(n)]>>)
       [] line.kind = "title" /\ line.pane = Pane /\ Valid(line.data) ->
            <<[type |-> "pane_title", title |-> line.data]>>
       [] line = Unlinked(Window) -> <<[type |-> "pane_exit"]>>
       [] OTHER -> <<>>

\* However tmux cuts the output into lines, mixes it with other lines, and the
\* PTY cuts the lines into chunks: the browser has been sent exactly what the
\* lines that have passed mean, in order, each once, nothing of another pane.
StreamIntact == sent = FlattenSeq([n \in 1..Passed |-> Meaning(n)])

Written == FlattenSeq(Ours)

\* A switch of the alternate screen that tmux cut in two.
SwitchCut ==
  \E k \in DOMAIN Ours, w \in AltOn \cup AltOff :
    LET before == Len(FlattenSeq(SubSeq(Ours, 1, k)))
    IN \E i \in DOMAIN Written :
         i <= before /\ before < i + Len(w) - 1 /\ At(Written, i, w)

\* When all has passed, the browser is on the screen the application chose
\* last, unless a switch was cut in two: only then can it be left on the wrong
\* one (the reader looks at one line at a time).
AltScreenTracked ==
  (Passed = Len(said) /\ ~SwitchCut) => last_alt_screen = AltIn(Written, said[1].alt)
=============================================================================
