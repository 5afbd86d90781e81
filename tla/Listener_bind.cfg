SPECIFICATION FairSpec
CONSTANTS
    a1 = a1
    a2 = a2
    c1 = c1
    Accepters = {a1, a2}
    Closers = {c1}
    MaxDeadlines = 1
    Configs <- AllCalls
    Methods = {0, 2, 128, 255}
    Statuses = {0, 1}
    Reps = {0, 4}
    Reps4 = {90, 91}
    Bounds <- SomeBounds
    Username <- User
    Password <- Pw
    CustomReplies <- SomeCustom
    MaxReplyBytes = 64
CHECK_DEADLOCK FALSE
INVARIANTS
    TypeOK
    WireExact
    OutcomeTrue
    ConnOwned
PROPERTIES
    CallsEnd
