\* Two buttons, pressed together and in turns.
SPECIFICATION FairSpec
CONSTANTS
    a = a
    b = b
    c = c
    Buttons <- TwoButtons
    Anti = 1
    Short = 2
    Multi = 1
    Pressing = 1
    Long = 3
    LongLong = 4
    CntMod = 3
    MaxQueue = 1
INVARIANTS LongPressHeld NothingMissed StateMatches
PROPERTIES InOrder Tracks Settles
