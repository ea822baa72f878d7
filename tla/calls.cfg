SPECIFICATION Spec
CONSTANTS
    N = 3
    Batch <- AskBatch
    Kind <- AskKind
    Sig <- AskSig
    MaxParallel = 2
INVARIANTS
    ConsentedOnly
    RecordIsTrue
    BatchSettled
PROPERTIES
    RejectionStands
    KeepsLedger
