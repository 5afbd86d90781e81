SPECIFICATION FairSpec
CONSTANTS
    Idles = {0, 2}
    HalfClose = 1
    MaxBytes = 2
    MaxNow = 5
    HalfClosers <- Ends
    Stalls = TRUE
    Faults = TRUE
    CtxCancels = TRUE
CHECK_DEADLOCK FALSE
INVARIANTS
    TypeOK
    TimeoutsExact
PROPERTIES
    FailureEndsBoth
