SPECIFICATION Spec
CONSTANTS
    l1 = l1
    l2 = l2
    c1 = c1
    c2 = c2
    c3 = c3
    NoConn = NoConn
    Loops <- OneLoop
    Conns <- TwoConns
    Direct <- NoDirect
    MaxConns = 0
    MaxHandshakes = 1
    AsyncReply = FALSE
    HookPanics = TRUE
CHECK_DEADLOCK FALSE
INVARIANT HandshakesNotUndercounted
