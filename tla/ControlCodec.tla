---------------------------- MODULE ControlCodec ----------------------------
(***************************************************************************)
(* The codec of tmux's control protocol (src/tmux_cc.rs) as functions on   *)
(* sequences of bytes.  A byte is a number below 256.  The fixed words of  *)
(* the protocol are single symbols above 255, except for the two that      *)
(* feed() searches in bytes that are still arriving: they are two symbols  *)
(* each, so that a chunk may end inside them.                              *)
(***************************************************************************)
EXTENDS Integers, Sequences, SequencesExt

LF == 10
CR == 13
ESC == 27
SPACE == 32
BACKSLASH == 92
CRLF == <<CR, LF>>

OUTPUT   == 301    \* "%output "
EXIT     == 302    \* "%exit"
UNLINKED == 303    \* "%unlinked-window-close "
CLOSED   == 304    \* "%window-close "
TITLE    == 305    \* "%pane-title-changed "
DCS      == <<ESC, 306>>
BEGIN    == <<37, 307>>

\* ESC [ 2 J and ESC [ 3 J
EraseDisplay    == <<ESC, 91, 50, 74>>
EraseScrollback == <<ESC, 91, 51, 74>>

\* ESC [ ? 47 h and ESC [ ? 47 l, and the same with 1047 and 1049
AltNumbers == {<<52, 55>>, <<49, 48, 52, 55>>, <<49, 48, 52, 57>>}
Switch(letter) == {<<ESC, 91, 63>> \o number \o <<letter>> : number \in AltNumbers}
AltOn  == Switch(104)
AltOff == Switch(108)

\* word stands at position i of data.
At(data, i, word) ==
  /\ i + Len(word) - 1 <= Len(data)
  /\ SubSeq(data, i, i + Len(word) - 1) = word

\* The first position of word in data, 0 if there is none.
Position(data, word) ==
  LET places == {i \in DOMAIN data : At(data, i, word)}
  IN IF places = {} THEN 0 ELSE Min(places)

-----------------------------------------------------------------------------
(* Output: from the bytes of tmux to the bytes of the pane. *)

IsDigit(c) == c \in 48..55

parse_octal(a, b, c) == (a - 48) * 64 + (b - 48) * 8 + (c - 48)

decode_output(value) ==
  LET n == Len(value)
      Octal(i) ==
        /\ value[i] = BACKSLASH
        /\ i + 3 <= n
        /\ \A k \in 1..3 : IsDigit(value[i + k])
        /\ parse_octal(value[i + 1], value[i + 2], value[i + 3]) <= 255
      Doubled(i) == At(value, i, <<BACKSLASH, BACKSLASH>>)
      from[i \in 1..n + 1] ==
        IF i > n THEN <<>>
        ELSE CASE Octal(i) ->
                    <<parse_octal(value[i + 1], value[i + 2], value[i + 3])>> \o from[i + 4]
               [] ~Octal(i) /\ Doubled(i) -> <<BACKSLASH>> \o from[i + 2]
               [] OTHER -> <<value[i]>> \o from[i + 1]
  IN from[1]

\* erased: the preceding four bytes erased the display.
filter_escapes(data) ==
  LET from[i \in 1..Len(data) + 1] == [erased \in BOOLEAN |->
        IF i > Len(data) THEN <<>>
        ELSE IF At(data, i, EraseDisplay) THEN EraseDisplay \o from[i + 4][TRUE]
        ELSE IF At(data, i, EraseScrollback)
             THEN (IF erased THEN EraseScrollback ELSE <<>>) \o from[i + 4][FALSE]
        ELSE <<data[i]>> \o from[i + 1][FALSE]]
  IN from[1][FALSE]

\* Mutant: the first switch of a line wins.
scan_alternate_screen_first(alt, data) ==
  LET words == {w \in AltOn \cup AltOff : Position(data, w) > 0}
  IN IF words = {} THEN alt
     ELSE (CHOOSE w \in words : \A v \in words :
             Position(data, w) <= Position(data, v)) \in AltOn

scan_alternate_screen(alt, data) ==
  LET Here(i) == {w \in AltOn \cup AltOff : At(data, i, w)}
      from[i \in 1..Len(data) + 1] == [on \in BOOLEAN |->
        IF i > Len(data) THEN on
        ELSE IF Here(i) = {} THEN from[i + 1][on]
        ELSE LET w == CHOOSE w \in Here(i) : TRUE
             IN from[i + Len(w)][(w \in AltOn)]]
  IN from[1][alt]
=============================================================================
