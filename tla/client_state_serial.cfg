SPECIFICATION StateSpec
CONSTANTS
    p1 = p1
    p2 = p2
    main1 = main1
    main2 = main2
    ws1 = ws1
    a = a
    b = b
    x = x
    NoToken = NoToken
    NoFile = NoFile
    Empty = Empty
    Garbled = Garbled
    Processes = {p1}
    Mains = {main1}
    Listeners = {main1}
    Of <- OneOf
    Tokens = {a, b}
    Peers = {x}
SYMMETRY TokenSymmetry
INVARIANTS
    AckedIsNotShownAgain
PROPERTIES
    SavesAreAtomic
    VerifiedIsKept
