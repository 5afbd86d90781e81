SPECIFICATION FairSpec
CONSTANTS
    a = a
    n = n
    IPs = {a}
    Names = {n}
    DstPorts = {1, 2}
    Ports = {1, 2}
    Allowed <- HighPort
    Configs <- MCConfigs
    TTL = 2
    LookupTimeout = 1
    MaxNow = 3
CHECK_DEADLOCK FALSE
INVARIANTS
    TypeOK
    OnlyAllowedReached
    AnswersFiltered
    AssociationBounded
PROPERTIES
    EndsAll
