SPECIFICATION FairSpec
CONSTANTS
    Autos = {a}
    None = None
    Period = 1
    Grace = 0
    Keep = 1
    Drafts <- SomeDrafts
    MaxTime = 2
    MaxEvents = 2
INVARIANTS
    TypeOK
    RunKept
    OneRunAtATime
PROPERTIES
    ClosedOnce
    RunsAndSlotsMove
