CONSTANTS
    k1 = k1
    k2 = k2
    o1 = o1
    o2 = o2
    n1 = n1
    n2 = n2
    NoName = NoName
    Nodes = {k1, k2}
    Owners = {o1, o2}
    Names = {n1, n2}
    Home <- MCHome
    KeyRank <- MCKeyRank
    TTL = 2
    RegisterCooldown = 2
    ReleaseCooldown = 1
    RenewWindow = 1
    Renewers = {o1}
    Releasers = {o1}
    MaxTime = 3
    MaxRecords = 3
    MaxOffers = 2
    m1 = m1
    x1 = x1
    x2 = x2
    FeedPosts = {m1, x1, x2}
    FeedAuthors = {"bob"}
    Me = "me"
    AuthorOf <- MCAuthorOf
    CreatedAt <- MCCreatedAt
    PageSize = 1
    MaxRenders = 2
    MaxChanges = 1
    r1 = r1
    r2 = r2
    e1 = e1
    e2 = e2
    v0 = v0
    Replicas = {r1, r2}
    Amounts = {1, 2}
    MaxCount = 3
    MaxIncrements = 2
    Elements = {e1, e2}
    MaxAdds = 2
    MaxSnapshots = 2
    Values = {v0}
    Initial = v0
    MaxCounter = 1
    OverflowChecks = FALSE
    MaxWall = 1
    MaxClock = 1
    MaxWrites = 3
    Parts = {"set"}
SPECIFICATION HandlesSpec
CONSTRAINT FewSteps
INVARIANT RemovedStaysRemoved
CHECK_DEADLOCK FALSE
