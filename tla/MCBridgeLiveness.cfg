CONSTANTS
    b1 = b1
    b2 = b2
    b3 = b3
    ws1 = ws1
    ws2 = ws2
    t1 = t1
    t2 = t2
    t3 = t3
    w1 = w1
    w2 = w2
    w3 = w3
    NoWindow = NoWindow
    NoBridge = NoBridge
    Workspaces = {ws1}
    Tabs = {t1, t2}
    Windows = {w1, w2, w3}
    WindowIds = {0, 1, 2}
    Bridges = {b1, b2}
    TmuxMayFail = FALSE
    DbPoisoned = FALSE
    ViewersTold = FALSE
    Closers = {b1}
    Crashers = {}
    Deleters = {}
    TabWs <- OneWs
    WinTab <- Names
    WinId <- Ids
    LongerLink <- OneTen
    TabOf <- Asks
    InitWindows <- Init12
    Exitable = {w1, w3}
SPECIFICATION Spec
PROPERTIES
    BridgeEnds
    
    ImplementsConnection
    
CHECK_DEADLOCK FALSE
