SPECIFICATION Spec
CONSTANTS
    t1 = t1
    t2 = t2
    Threads = {t1, t2}
    MaxEvents = 2
    Window = 2
    MaxTime = 4
    MaxThrough = 4
SYMMETRY Symmetry
CHECK_DEADLOCK FALSE
INVARIANTS
    TypeOK
    ThroughPerWindow
PROPERTIES
    TurnedAwayWithReason
