SPECIFICATION Spec
CONSTANTS
    Messages = {m1}
    Execs = {x1}
    Attached = {m1}
    Textless = {m1}
    QueueMax = 1
    MaxIter = 2
    OwnerTurns = 1
    MaxTurns = 3
    MaxStops = 1
PROPERTY
    ThreadMoves
CHECK_DEADLOCK FALSE
