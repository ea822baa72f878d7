SPECIFICATION FairSpec
CONSTANTS
    MaxChunks = 2
    Lookahead = 1
    MaxStirs = 3
    Worlds <- EveryWorld
CHECK_DEADLOCK FALSE
INVARIANTS
    TypeOK
    NeverWedged
    RightWordsSound
PROPERTIES
    OwnerIsObeyed
    ReadingRests
