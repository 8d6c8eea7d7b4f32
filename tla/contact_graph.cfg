SPECIFICATION ContactSpec
CONSTANTS
    alice = alice
    bob = bob
    w1 = w1
    w2 = w2
    Users <- TwoUsers
    Threads = {w1, w2}
    MaxRequestId = 5
    InitialRequests <- LegacyRequests
    InitialContacts <- NoContacts
SYMMETRY ThreadSymmetry
INVARIANTS
    ContactTypeOK
    ContactsSymmetric
    NoPendingBetweenContacts
    UniqueRows
