SPECIFICATION FairSpec
CONSTANTS
    MaxRecs = 2
    MaxSaid = 2
    Attempts = 2
    Setups <- TwoSizes
CHECK_DEADLOCK FALSE
INVARIANTS
    TypeOK
    WordsLandOnce
    OneEar
    WordsStayHome
PROPERTY MicRests
