SPECIFICATION Spec
CONSTANTS
    alice = alice
    bob = bob
    s1 = s1
    s2 = s2
    w1 = w1
    Users <- TwoUsers
    Threads = {w1}
    MaxRequestId = 3
    InitialRequests <- NoRequests
    InitialContacts <- NoContacts
    Sockets = {}
    TTLs = {0}
    MaxMessageId = 1
    MaxClock = 0
    SweepInterval = 2
INVARIANTS
    OnePendingPerPair
    AcceptNeverAborts
