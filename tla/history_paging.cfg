SPECIFICATION HistorySpec
CONSTANTS
    w1 = w1
    w2 = w2
    Threads = {w1, w2}
    NoThread = NoThread
    Reader = Reader
    Peer = Peer
    Limits = {2}
    TTLs = {0, 1}
    SweepInterval = 1
    MaxMessages = 3
    MaxClock = 1
SYMMETRY ThreadSymmetry
INVARIANTS
    HistoryTypeOK
    NothingSkipped
    NothingTwice
    ReadWasSelected
