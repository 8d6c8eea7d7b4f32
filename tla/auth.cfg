SPECIFICATION AuthSpec
CONSTANTS
    alice = alice
    w1 = w1
    w2 = w2
    Users <- OneUser
    Threads = {w1, w2}
    Keys <- AuthKeys
    Limit <- Limits
    Window = 2
    MaxDelay = 1
    MaxClock = 2
    ChallengeTTL = 2
    SessionTTL = 1
    MaxChallenges = 1
    MaxSessions = 2
SYMMETRY ThreadSymmetry
INVARIANTS
    AuthTypeOK
    OneAccountPerName
    OneSessionPerChallenge
    GrantsAreSpaced
    DenialIsDue
PROPERTY
    ImplementsSessions
