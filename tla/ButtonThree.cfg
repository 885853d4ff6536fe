\* Three buttons: the properties that do not need the number of buttons to match the state.
SPECIFICATION Spec
CONSTANTS
    a = a
    b = b
    c = c
    Buttons <- ThreeButtons
    Anti = 1
    Short = 2
    Multi = 2
    Pressing = 1
    Long = 3
    LongLong = 4
    CntMod = 3
    MaxQueue = 1
INVARIANTS TimersMatch
SYMMETRY ThreeSymmetry
