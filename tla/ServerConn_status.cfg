SPECIFICATION Spec
CONSTANTS
    Kinds <- UserPassKinds
    MsgEnd <- UserPassEnds
    Total = 4
    InSize = 3
    AuthLen = 3
    OutMax = 5
    Bind = FALSE
    Settings <- PatientFaulty
CHECK_DEADLOCK FALSE
INVARIANTS
    NoPartialStatus
