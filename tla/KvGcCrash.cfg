SPECIFICATION FairSpec
CONSTANTS
    Keys = {k1, k2}
    Vals = {v1, v2}
    NoVal = NoVal
    NoReq = NoReq
    Erased = Erased
    Torn = Torn
    Cap = 4
    ItemMax = 2
    KeySets <- NoKeySets
    Ops <- OnlySet
    CrashAt <- InCollection
    MaxCrash = 1
PROPERTIES RecoveryPreserves
