SPECIFICATION FairSpec
CONSTANTS
    l1 = l1
    l2 = l2
    c1 = c1
    c2 = c2
    c3 = c3
    NoConn = NoConn
    Loops <- OneLoop
    Conns <- TwoConns
    Direct <- NoDirect
    MaxConns = 1
    MaxHandshakes = 0
    AsyncReply = TRUE
    HookPanics = TRUE
CHECK_DEADLOCK FALSE
PROPERTIES
    StopReturns
