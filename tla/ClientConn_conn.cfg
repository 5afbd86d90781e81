SPECIFICATION FairSpec
CONSTANTS
    reader = reader
    writer = writer
    other = other
    Threads <- AllThreads
    Configs <- MCConfigs
    HasDeadlines = TRUE
CHECK_DEADLOCK FALSE
INVARIANTS
    TypeOK
    HandshakeFirst
    NoneStranded
PROPERTIES
    EndsOnce
    EndUnblocks
