SPECIFICATION TrustSpec
CONSTANTS
    k1 = k1
    k2 = k2
    k3 = k3
    Keys = {k1, k2}
    NoKey = NoKey
    Main = main
    Listeners = {l1, l2}
INVARIANTS
    TrustTypeOK
    CommandsAreGated
PROPERTY OneRecordLeft
