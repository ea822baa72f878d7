SPECIFICATION FairSpec
CONSTANTS
    Rungs = 1
    MaxSegs = 2
    MaxStirs = 2
    Setups <- FourSetups
    Kinds <- EveryKind
CHECK_DEADLOCK FALSE
INVARIANTS
    TypeOK
    NothingMisheard
PROPERTIES
    TakesTurns
    CallMoves
