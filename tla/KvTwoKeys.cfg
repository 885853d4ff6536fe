SPECIFICATION FairSpec
CONSTANTS
    Keys = {k1, k2}
    Vals = {v1, v2}
    NoVal = NoVal
    NoReq = NoReq
    Erased = Erased
    Torn = Torn
    Cap = 3
    ItemMax = 2
    KeySets <- NoKeySets
    Ops <- SetDel
    CrashAt <- Everywhere
    MaxCrash = 3
INVARIANTS OneRecord RefusedOnlyWhenFull
PROPERTIES LosesOnly
