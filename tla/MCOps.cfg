CONSTANTS
    r1 = r1
    r2 = r2
    r3 = r3
    s1 = s1
    s2 = s2
    f1 = f1
    NoWs = NoWs
    Nobody = Nobody
    Requests = {r1, r2, r3}
    Kinds = {"createWs", "deleteWs", "recreateWs", "createTab", "deleteTab", "recreateTab", "list"}
    WsIds = {s1}
    TabIds = {1, 10, 11}
    Foreign = {f1}
    MaxWindows = 3
    Longer <- Digits
    InitWindows <- One
SPECIFICATION Spec
INVARIANTS
    TypeOK
    PoisonedByCreateTab
PROPERTIES
    OneRowPerWindow
    DeletionIsFinal
CHECK_DEADLOCK FALSE
