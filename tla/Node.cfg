\* One node, any number of boots.
SPECIFICATION FairSpec
CONSTANTS
    Threshold = 3
    StoreDelay = 2
    ProvTime = 4
    Quick = 3
    CntMod = 5
INVARIANTS IInv Flushed
PROPERTIES LossExplained Saved Forgets
