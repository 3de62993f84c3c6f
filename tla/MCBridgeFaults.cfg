CONSTANTS
    b1 = b1
    b2 = b2
    b3 = b3
    ws1 = ws1
    ws2 = ws2
    t1 = t1
    t2 = t2
    t3 = t3
    w1 = w1
    w2 = w2
    w3 = w3
    NoWindow = NoWindow
    NoBridge = NoBridge
    Workspaces = {ws1}
    Tabs = {t1, t2}
    Windows = {w1, w2, w3}
    WindowIds = {0, 1, 2}
    Bridges = {b1, b2}
    TmuxMayFail = FALSE
    DbPoisoned = FALSE
    ViewersTold = TRUE
    Closers = {b1, b2}
    Crashers = {ws1}
    Deleters = {ws1}
    TabWs <- OneWs
    WinTab <- Names
    WinId <- Ids
    LongerLink <- Plain
    TabOf <- Asks
    InitWindows <- Init12
    Exitable = {w1, w2, w3}
SPECIFICATION Spec
INVARIANTS
    TypeOK
    PaneExitSound
    NothingLeftBehind
SYMMETRY Alike
CHECK_DEADLOCK FALSE
