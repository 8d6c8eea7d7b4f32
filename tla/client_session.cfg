SPECIFICATION SessionSpec
CONSTANTS
    Listeners = {1, 2}
    MaxTokens = 2
INVARIANTS
    SessionTypeOK
    OneListener
    LogoutIsComplete
PROPERTY
    StoppedEnds
