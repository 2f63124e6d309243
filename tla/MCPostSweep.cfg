CONSTANTS
    r1 = r1
    r2 = r2
    None = None
    Local = {}
    Remote = {r1, r2}
    Ttl <- MCShortTtl
    Skew = 0
    Stall = 1
    Batch = 1
    AuthorClocks = {0}
    MaxTime = 3
    MaxCrashes = 0
    MaxFaults = 1
    na = na
    nb = nb
    loop = loop
    Endpoints = {na, nb}
    NoLink = NoLink
    Senders = {na, nb}
    Outbound = 1
    Inbound = 1
    MaxLinks = 2
    MaxSends = 10
    FewSends = 1
    Credit = 1
    MaxBreaks = 1
    Callers = {na, nb}
    Background = {loop}
    TopicOrder <- TwoTopics
    NoNet = NoNet
    MaxNets = 2
    MaxSignals = 1
    MaxLocks = 1
    Rows <- TwoRows
    MaxFlaps = 3
    Bits = 3
    Ids = {0, 1, 4, 5, 6}
    LocalId = 0
    Target = 3
    XorDistance <- MCXor
    K = 2
    Alpha = 2
    Answers <- Pairs
    MaxSilent = 2
SPECIFICATION LoopsSpec
INVARIANTS
    KeptIsLive
    NetworkIngests
    NoNodeTwice
PROPERTIES
    ExpiredIsTombstoned
    ReplacementKept
    MutexReleased
    ReachableIsLinked
    LookupEnds
CHECK_DEADLOCK FALSE
