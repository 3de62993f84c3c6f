CONSTANTS
    b1 = b1
    b2 = b2
    e = e
    x = x
    y = y
    s1 = s1
    s2 = s2
    Empty = e
    Pending = Pending
    Absent = Absent
    Browsers = {b1, b2}
    Texts = {e, x}
    Slots = {s1, s2}
    MaxSaves <- Once
    Reloaders = {b1}
    MaxFetches <- TwiceAndOnce
    MaxEdits <- TwiceAndOnce
SPECIFICATION Spec
INVARIANTS
    TypeOK
    
PROPERTIES
    
    ListNeverGoesBack
    
CHECK_DEADLOCK FALSE
