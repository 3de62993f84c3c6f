CONSTANTS
    r1 = r1
    r2 = r2
    r3 = r3
    s1 = s1
    s2 = s2
    f1 = f1
    NoWs = NoWs
    Nobody = Nobody
    Requests = {r1}
    Kinds = {"recreateTab"}
    WsIds = {s1}
    TabIds = {1, 2, 10}
    Foreign = {f1}
    MaxWindows = 3
    Longer <- Digits
    InitWindows <- OneTen
SPECIFICATION Spec
PROPERTIES
    SiblingsUntouched
CHECK_DEADLOCK FALSE
