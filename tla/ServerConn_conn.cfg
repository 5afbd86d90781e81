SPECIFICATION FairSpec
CONSTANTS
    Kinds <- TwoAuthKinds
    MsgEnd <- TwoAuthEnds
    Total = 9
    InSize = 4
    AuthLen = 2
    OutMax = 5
    Bind = TRUE
    Settings <- Either
CHECK_DEADLOCK FALSE
INVARIANTS
    TypeOK
    BufferSafe
    OneFinalReply
PROPERTIES
    StreamKept
    HandshakeCompletes
