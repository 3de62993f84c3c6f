-------------------------- MODULE MCControlStream ---------------------------
(***************************************************************************)
(* Instance of ControlStream for TLC.                                      *)
(***************************************************************************)
EXTENDS ControlStream

Letter == <<65>>
On  == <<ESC, 91, 63, 52, 55, 104>>
Off == <<ESC, 91, 63, 52, 55, 108>>

\* Erasures that are paired, alone, and apart; switches there and back; and
\* a backslash that is followed by octal digits.
SomePieces == {EraseDisplay \o EraseScrollback,
               Letter \o EraseScrollback,
               EraseDisplay \o Letter \o EraseScrollback,
               On \o Off, Off \o On,
               <<BACKSLASH, 48, 51, 51>>}
SomeTexts == {Letter, <<255>>}
=============================================================================
