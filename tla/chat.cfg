SPECIFICATION Spec
CONSTANTS
    Conversations = 3
    MaxSends = 2
    Worlds <- EveryWorld
INVARIANTS
    TypeOK
    OneConversation
    EachWordOnce
    NothingHangs
CHECK_DEADLOCK FALSE
