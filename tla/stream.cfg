SPECIFICATION Spec
CONSTANTS
    Clients = {c1, c2}
    Buffered = {c2}
    RingSize = 2
    QueueSize = 2
    MaxEvents = 5
    MaxConnects = 3
INVARIANTS
    NoHole
PROPERTIES
    ClientsReadTheLog
    StreamsServe
CHECK_DEADLOCK FALSE
