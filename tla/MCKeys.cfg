CONSTANTS
    Parts = {"manager", "node", "session", "request"}
    Pair = {alice, bob}
    Nil = Nil
    MaxLetters = 4
    alice = alice
    bob = bob
    Writers = {alice, bob}
    Skew <- ClockSkew
    Terms = {0, 1, 3}
    MaxMessageTtl = 1
    MaxLetter = 2
    LastSecond = 3
    c1 = c1
    c2 = c2
    p1 = p1
    p2 = p2
    m0 = m0
    None = None
    Torn = Torn
    Master = m0
    Retention = 1
    MaxDay = 4
    Clients = {c1}
    Passphrases = {p1, p2}
    Indices = {0, 1}
    LastDay = 1
    MaxSaves = 2
    MaxFaults = 1
SPECIFICATION Spec
INVARIANTS
    RetainedReadable
    MemoryMatchesDisk
    LatestReadable
    MessageKeysSafe
    CollectedStaysGone
    InboxIsAdmitted
CHECK_DEADLOCK FALSE
