SPECIFICATION Spec
CONSTANTS
    Conversations = 3
    MaxSends = 2
    Worlds <- Unsent
INVARIANT
    UnansweredKept
CHECK_DEADLOCK FALSE
