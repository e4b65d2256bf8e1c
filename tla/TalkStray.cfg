CONSTANTS
    m1 = m1
    m2 = m2
    Riders = {m1, m2}
    Cap = 2
    Asks = 2
    Refreshes = 1
    Leavers = {m1, m2}
    CutOff = {}
    DropOut = {}
    MaxBreaks = 0
SPECIFICATION Spec
INVARIANT ReleaseMutes
