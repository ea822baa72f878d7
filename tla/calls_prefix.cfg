SPECIFICATION FairSpec
CONSTANTS
    N = 5
    Batch <- ReadBatch
    Kind <- ReadKind
    Sig <- ReadSig
    MaxParallel = 2
INVARIANTS
    TypeOK
    ResultsStand
PROPERTIES
    StopEnds
