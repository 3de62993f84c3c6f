-------------------------- MODULE MCTerminalModes ---------------------------
\* Instance of TerminalModes for TLC.
EXTENDS TerminalModes

\* One and a half chunks, and a single key.
SomeInputs == {<<1, 2, 3>>, <<4>>}
=============================================================================
