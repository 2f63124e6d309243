CONSTANTS
    n1 = n1
    n2 = n2
    n3 = n3
    m1 = m1
    m2 = m2
    Nodes = {n1, n2, n3}
    Messages = {m1, m2}
    Links <- Mesh
    Author <- TwoAuthors
    EagerPushPeers = 1
    QueueSize = 1
    MaxFaults = 1
    Hosts = {n1, n2}
    Owners = {n1, n2}
    Elder = n1
    Written = "display_name"
    Fields = {"display_name", "bio"}
    RecordTtl = 0
    MaxRecords = 1
    MaxUpdates = 2
    MaxQueries = 1
    MaxDhtFaults = 1
    MaxDhtTime = 1
    Parts = {"gossip", "dht", "tree"}
    Topics = {t1, t2}
    Hashes = {h1, h2}
    Sources = {q1}
    Myself = me
    MaxSubscriptions = 2
    BufferSize = 1
    EpochDuration = 2
    NoState = NoState
    LastTick = 4
SPECIFICATION FairSpec
INVARIANTS
    ProfilesGenuine
    RememberedAnEpoch
PROPERTIES
    ImplementsBroadcast
    EventualDelivery
    OwnRecordCurrent
CHECK_DEADLOCK FALSE
