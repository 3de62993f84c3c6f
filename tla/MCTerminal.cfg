\* One connection in either mode: keys and sizes through a PTY with little
\* room, the replay of a pane that goes on printing, the end of a direct shell.
CONSTANTS
  CHUNK_SIZE = 2
  Inputs <- SomeInputs
  FirstSize = 80
  Sizes = {90}
  Room = 2
  MaxTyped = 2
  Height = 2
  MaxLines = 2
  MaxEvents = 3
SPECIFICATION Spec
INVARIANTS
  TypeOK
  InputIntact
  
  
PROPERTIES
  DirectEnds
  DirectImplementsConnection
CHECK_DEADLOCK FALSE
