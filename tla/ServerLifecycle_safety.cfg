SPECIFICATION Spec
CONSTANTS
    l1 = l1
    l2 = l2
    c1 = c1
    c2 = c2
    c3 = c3
    NoConn = NoConn
    Loops <- TwoLoops
    Conns <- ThreeConns
    Direct <- OneDirect
    MaxConns = 1
    MaxHandshakes = 2
    AsyncReply = FALSE
    HookPanics = FALSE
CHECK_DEADLOCK FALSE
SYMMETRY Symmetry
INVARIANTS
    TypeOK
    SlotsExact
    NoSlotMissed
    HandshakesNotUndercounted
    NothingLeft
PROPERTY ShutNeverServed
