SPECIFICATION FairSpec
CONSTANTS
    r1 = r1
    r2 = r2
    pub = pub
    gained = gained
    nat = nat
    priv = priv
    here = here
    loop = loop
    any = any
    NoIP = NoIP
    Name = Name
    Reqs = {r1, r2}
    Asks <- MCAsks
    Configs <- MCConfigs
    IPs <- MCIPs
    Answers <- MCAnswers
    Special = {priv, loop, any}
    Loopback = {loop}
    Unspecified = {any}
    Embedded <- MCEmbedded
    SelfAddrs = {}
    LocalAddr = here
    Mobile = {gained}
    DialErrs = {"access"}
    UserErrs = {"identd", "notAllowed"}
    TTL = 1
    MaxNow = 1
    MaxChanges = 1
CHECK_DEADLOCK FALSE
INVARIANTS
    TypeOK
    TargetsVetted
    
    NoOracle
PROPERTIES
    RequestsEnd
