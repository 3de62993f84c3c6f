----------------------------- MODULE InputPath ------------------------------
(***************************************************************************)
(* What a user types and how large the terminal is, from the WebSocket to  *)
(* the program in the pane: the writer task of both bridges and            *)
(* async_write (src/terminal.rs) with the commands of src/tmux_cc.rs.  In  *)
(* "control" mode input travels as tmux commands, in "direct" mode as it   *)
(* is, and a size is set by ioctl.                                         *)
(***************************************************************************)
EXTENDS Integers, Sequences, SequencesExt

CONSTANTS
  CHUNK_SIZE,  \* bytes in one send-keys command
  Inputs,      \* byte sequences the user may send at once
  FirstSize,   \* size of the terminal in the request
  Sizes,       \* sizes it may take later
  Room,        \* tokens the PTY holds that nobody has read
  MaxTyped     \* bound: messages of the browser after its first size

ASSUME InputAssumption ==
  /\ {CHUNK_SIZE, Room, MaxTyped} \subseteq Nat \ {0}
  /\ Room > 1
  /\ Inputs \subseteq Seq(0..255)

VARIABLES
  mode,     \* "control" or "direct"
  writer,   \* the writer task
  typed,    \* history: the messages of the browser, its size in the request first
  inbox,    \* those the writer has not received
  rest,     \* what async_write has still to write
  pty,      \* what the program, or tmux, has still to read
  line,     \* the command tmux is reading
  arrived   \* history: keys and sizes that reached the pane

inputVars == <<typed, inbox, rest, pty, line, arrived>>

-----------------------------------------------------------------------------
(* tmux_cc.rs: the tokens of commands *)

Key(b)  == <<"key", b>>
Size(s) == <<"size", s>>
SendKeys  == <<"send-keys">>
Resize(s) == <<"refresh-client", s>>
LineEnd   == <<"line end">>

Keys(data) == [i \in DOMAIN data |-> Key(data[i])]

Command(data) == <<SendKeys>> \o Keys(data) \o <<LineEnd>>

\* Mutant: one command, however large the input.
encode_input_massive(data) == Command(data)

\* Mutant: takes only whole chunks.
encode_input_whole(data) ==
  FlattenSeq([c \in 1..Len(data) \div CHUNK_SIZE |->
    Command(SubSeq(data, (c - 1) * CHUNK_SIZE + 1, c * CHUNK_SIZE))])

encode_input(data) ==
  IF data = <<>> THEN Command(<<>>)
  ELSE LET chunks == (Len(data) + CHUNK_SIZE - 1) \div CHUNK_SIZE
           End(c) == IF c = chunks THEN Len(data) ELSE c * CHUNK_SIZE
       IN FlattenSeq([c \in 1..chunks |->
            Command(SubSeq(data, (c - 1) * CHUNK_SIZE + 1, End(c)))])

encode_resize(s) == <<Resize(s), LineEnd>>

-----------------------------------------------------------------------------
(* The browser *)

Input(data)   == [type |-> "input", data |-> data]
Resized(size) == [type |-> "resize", size |-> size]

Type(msg) ==
  /\ Len(typed) <= MaxTyped
  /\ typed' = Append(typed, msg)
  /\ inbox' = Append(inbox, msg)
  /\ UNCHANGED <<mode, writer, rest, pty, line, arrived>>

-----------------------------------------------------------------------------
(* The writer *)

\* The size of the request: a command before the tasks start, or an ioctl
\* before the shell does.
StartWriter ==
  /\ writer' = "recv"
  /\ IF mode = "control"
     THEN pty' = encode_resize(FirstSize) /\ UNCHANGED arrived
     ELSE arrived' = <<Size(FirstSize)>> /\ UNCHANGED pty
  /\ UNCHANGED <<mode, typed, inbox, rest, line>>

Encoded(msg) ==
  IF mode = "direct" THEN Keys(msg.data)
  ELSE IF msg.type = "input" THEN encode_input(msg.data) ELSE encode_resize(msg.size)

\* A size in direct mode: set_winsize, at once.
Recv ==
  /\ writer = "recv"
  /\ inbox # <<>>
  /\ inbox' = Tail(inbox)
  /\ LET msg == Head(inbox)
     IN IF mode = "direct" /\ msg.type = "resize"
        THEN /\ arrived' = Append(arrived, Size(msg.size))
             /\ UNCHANGED <<writer, rest>>
        ELSE /\ rest' = Encoded(msg)
             /\ writer' = IF Encoded(msg) = <<>> THEN "recv" ELSE "write"
             /\ UNCHANGED arrived
  /\ UNCHANGED <<mode, typed, pty, line>>

\* Mutant: what write_all does with a partial write, it starts from the front.
Unwritten_all(n) == IF n = Len(rest) THEN <<>> ELSE rest

\* What is left when n tokens were written.
Unwritten(n) == SubSeq(rest, n + 1, Len(rest))

\* One write of async_write; it waits while the PTY has no room.
WriteSome(n) ==
  /\ writer = "write"
  /\ n \in 1..Len(rest)
  /\ Len(pty) + n <= Room
  /\ pty' = pty \o SubSeq(rest, 1, n)
  /\ rest' = Unwritten(n)
  /\ writer' = IF rest' = <<>> THEN "recv" ELSE "write"
  /\ UNCHANGED <<mode, typed, inbox, line, arrived>>

-----------------------------------------------------------------------------
(* The other end of the PTY *)

\* What a command does.
Done(command) ==
  IF command[1] = SendKeys THEN Tail(command) ELSE <<Size(command[1][2])>>

\* The program reads a key; tmux reads on in its line and runs it at its end.
Consume ==
  /\ pty # <<>>
  /\ pty' = Tail(pty)
  /\ LET token == Head(pty)
     IN CASE mode = "direct" -> arrived' = Append(arrived, token) /\ UNCHANGED line
          [] mode = "control" /\ token # LineEnd ->
               line' = Append(line, token) /\ UNCHANGED arrived
          [] mode = "control" /\ token = LineEnd ->
               line' = <<>> /\ arrived' = arrived \o Done(line)
  /\ UNCHANGED <<mode, writer, typed, inbox, rest>>

-----------------------------------------------------------------------------
InputInit ==
  /\ typed = <<Resized(FirstSize)>>
  /\ inbox = <<>>
  /\ rest = <<>>
  /\ pty = <<>>
  /\ line = <<>>
  /\ arrived = <<>>

-----------------------------------------------------------------------------
(* Properties *)

InputTypeOK ==
  /\ Len(typed) <= MaxTyped + 1
  /\ IsSuffix(inbox, typed)
  /\ Len(pty) <= Room
  /\ rest # <<>> => writer # "recv"
  /\ mode = "direct" => line = <<>>
  /\ Len(line) <= CHUNK_SIZE + 1    \* no "single massive command line"

\* The tokens of one kind.
Only(s, kind) ==
  FlattenSeq([i \in DOMAIN s |-> IF s[i][1] = kind THEN <<s[i]>> ELSE <<>>])

\* What the browser sent, in its order.
Sent ==
  FlattenSeq([i \in DOMAIN typed |->
    IF typed[i].type = "input" THEN Keys(typed[i].data) ELSE <<Size(typed[i].size)>>])

\* s is what came first of it; in direct mode keys and sizes are apart, for a
\* size set by ioctl may overtake keys.
Prefix(s) ==
  IF mode = "control" THEN IsPrefix(s, Sent)
  ELSE \A kind \in {"key", "size"} : IsPrefix(Only(s, kind), Only(Sent, kind))

Quiet == writer = "recv" /\ <<inbox, rest, pty, line>> = <<<<>>, <<>>, <<>>, <<>>>>

\* However large the input, however little room the PTY has and however often
\* a write is cut short: what reached the pane is what the user typed from the
\* start, each key once and in order, and when nothing is under way any more
\* it is all of it.
InputIntact ==
  /\ Prefix(arrived)
  /\ Quiet => Len(arrived) = Len(Sent)
=============================================================================
