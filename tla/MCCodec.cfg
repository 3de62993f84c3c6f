CONSTANTS
    Pane = 401
    OtherPane = 402
    Window = 501
    OtherWindow = 502
    Pieces <- SomePieces
    Texts <- SomeTexts
    MaxPieces = 1
    MaxCuts = 1
    MaxNotices = 1
    Backlog = 1
SPECIFICATION Spec
INVARIANTS
    TypeOK
    StreamIntact
    AltScreenTracked
CHECK_DEADLOCK FALSE
