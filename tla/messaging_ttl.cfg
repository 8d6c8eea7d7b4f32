SPECIFICATION Spec
CONSTANTS
    alice = alice
    bob = bob
    s1 = s1
    s2 = s2
    w1 = w1
    Users <- TwoUsers
    Threads = {}
    MaxRequestId = 0
    InitialRequests <- NoRequests
    InitialContacts <- MutualContacts
    Sockets = {s1}
    TTLs = {1}
    MaxMessageId = 2
    MaxClock = 3
    SweepInterval = 2
SYMMETRY UserSymmetry
INVARIANTS
    SummaryIsLatest
    OneReceiptPerDelivery
PROPERTIES
    ImplementsMailbox
    OnlyExpiredOrBlockedDeleted
