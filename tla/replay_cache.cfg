SPECIFICATION ReplaySpec
CONSTANTS
    main = main
    ws = ws
    x = x
    y = y
    NoToken = NoToken
    Browsers = {main}
    Listeners = {ws}
    MessageIds = {0, 1, 2, 3}
    Tokens = {x, y}
    TokenOf <- Copied
    MaxEntries = 1
    MaxClock = 1
    Watched = 1
    Pages <- SmallPages
INVARIANTS
    ReplayTypeOK
    RecentIsRemembered
    CopyIsBlocked
    RememberedWasShown
