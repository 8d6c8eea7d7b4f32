SPECIFICATION FairSpec
CONSTANTS
    alice = alice
    bob = bob
    s1 = s1
    s2 = s2
    w1 = w1
    Users <- TwoUsers
    Threads = {}
    MaxRequestId = 0
    InitialRequests <- NoRequests
    InitialContacts <- MutualContacts
    Sockets = {s1, s2}
    TTLs = {0}
    MaxMessageId = 1
    MaxClock = 0
    SweepInterval = 2
INVARIANTS
    TypeOK
    NoMissedMessage
PROPERTIES
    HealthyStaysOpen
    EveryMessageIsOffered
