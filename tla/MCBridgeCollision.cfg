CONSTANTS
    b1 = b1
    b2 = b2
    b3 = b3
    ws1 = ws1
    ws2 = ws2
    t1 = t1
    t2 = t2
    t3 = t3
    w1 = w1
    w2 = w2
    w3 = w3
    NoWindow = NoWindow
    NoBridge = NoBridge
    Workspaces = {ws1, ws2}
    Tabs = {t1, t2, t3}
    Windows = {w1, w2, w3}
    WindowIds = {0, 1}
    Bridges = {b1, b3}
    TmuxMayFail = FALSE
    DbPoisoned = TRUE
    ViewersTold = TRUE
    Closers = {b3}
    Crashers = {}
    Deleters = {}
    TabWs <- TwoWs
    WinTab <- OwnNames
    WinId <- SameIds
    LongerLink <- Plain
    TabOf <- Asks3
    InitWindows <- Init123
    Exitable = {w1, w2, w3}
SPECIFICATION Spec
INVARIANTS
    PaneExitSound
CHECK_DEADLOCK FALSE
