SPECIFICATION Spec
CONSTANTS
    reader = reader
    writer = writer
    other = other
    Threads <- AllThreads
    Configs <- WipeConfigs
    HasDeadlines = TRUE
CHECK_DEADLOCK FALSE
INVARIANTS
    SendsIntact
