SPECIFICATION FairSpec
CONSTANTS
    Keys = {k1}
    Vals = {v1, v2}
    NoVal = NoVal
    NoReq = NoReq
    Erased = Erased
    Torn = Torn
    Cap = 4
    ItemMax = 2
    KeySets <- AllKeys
    Ops <- AllOps
    CrashAt <- Everywhere
    MaxCrash = 3
INVARIANTS IInv GarbageIsDirty
PROPERTIES Durable FlashDiscipline Completes
