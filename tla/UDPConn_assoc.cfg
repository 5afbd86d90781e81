SPECIFICATION FairSpec
CONSTANTS
    t1 = t1
    t2 = t2
    c1 = c1
    gc = gc
    lo = lo
    lan = lan
    pub = pub
    pub6 = pub6
    any = any
    any6 = any6
    mcast = mcast
    Name = Name
    NoIP = NoIP
    NoDialer = NoDialer
    Threads = {t1, t2}
    Closers = {c1}
    Cleanup = gc
    IPs <- AllIPs
    Scope <- Scopes
    IPv4 = {lo, lan, pub, any, mcast}
    Any = {any, any6}
    Group = {mcast}
    Answers <- Lookups
    Dialers <- SomeDialers
CHECK_DEADLOCK FALSE
INVARIANTS
    TypeOK
    RelayVetted
    NoneLeftOpen
    ResultsTrue
PROPERTIES
    EverythingEnds
