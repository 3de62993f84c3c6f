CONSTANTS
    p1 = p1
    p2 = p2
    p3 = p3
    Nobody = Nobody
    Procs = {p1, p2, p3}
    Repeatable <- Migrations
    Resetters = {p3}
SPECIFICATION Spec
INVARIANTS
    TypeOK
    ServedSchemaComplete
    
    CleanExitLeavesNothing

    
CHECK_DEADLOCK FALSE
