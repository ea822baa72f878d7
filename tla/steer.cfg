SPECIFICATION Spec
CONSTANTS
    Messages = {m1, m2}
    Execs = {x1}
    Attached = {}
    Textless = {}
    QueueMax = 2
    MaxIter = 1
    OwnerTurns = 2
    MaxTurns = 4
    MaxStops = 1
SYMMETRY SymMessages
INVARIANTS
    TypeOK
    FirstInFirstOut
    MarkerExact
    EachSteerOnce
PROPERTY
    StaysTakenBack
CHECK_DEADLOCK FALSE
