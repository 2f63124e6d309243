CONSTANTS
    l1 = l1
    r1 = r1
    None = None
    Local = {l1}
    Remote = {r1}
    Ttl <- MCTtl
    Skew = 1
    Stall = 1
    Batch = 1
    AuthorClocks <- MCClocks
    MaxTime = 10
    MaxCrashes = 1
    MaxFaults = 1
    photo = photo
    clip = clip
    film = film
    MediaPosts = {p1, p2}
    Files = {photo, clip, film}
    Mp4 = {clip, film}
    ValidFiles = {photo, clip}
    Bytes <- MCBytes
    Dims <- MCDims
    MaxFiles = 2
    MaxMishaps = 1
    NoPost = NoPost
    Octets = {0, 1}
    MaxLength = 4
    ChunkSizes = {1, 2}
    MaxHandling = 2
    Blobs = {h1, h2}
    Tasks = {t1, t2}
    NoBlob = NoBlob
    MaxOps = 5
    MaxCrash = 1
    Calls = {c1, c2}
    Authors = {a1}
    Bodies <- MCBodies
    TokenBits <- MCTokenBits
    BitPositions = {1, 2, 3, 4}
    NearDistance = 1
    WindowSize = 2
    Capacity = 2
    TokenUnits = 3
    RefillRate = 2
    LastTick = 3
    MaxPosts = 3
    Upper = {"A"}
    Lower = {"a", "b"}
    Other = {"."}
    ByteWidth <- MCWidth
    MinText = 4
    MaxText = 6
    Reporters = {u1, u2, u3}
    Contents = {k1, k2}
    ReportCalls = {d1, d2}
    Threshold = 2
    MaxPerReporter = 2
    MaxReports = 3
    MaxTroubles = 1
SPECIFICATION ContentSpec
CONSTRAINT OnePost
INVARIANTS
    NoResurrection
    UnexpiredHasBlob
    StoredIsWhole
    ChunksHaveOwner
    AcceptedIsContent
    NeverTorn
    RateBounded
    NoNearTwins
    RunsAreStopped
    QuorumHides
CHECK_DEADLOCK FALSE
