SPECIFICATION Spec
CONSTANTS
    t1 = t1
    t2 = t2
    d0 = d0
    d1 = d1
    o1 = o1
    o2 = o2
    None = None
    Threads = {t1}
    Devices = {d0}
    Ops = {o1}
    NumLow = 1
    NumHigh = 1
    NumHost = 1
    Priorities <- BothPriorities
    CreateFails = TRUE
    MaxPicks = 1
SYMMETRY Symmetry
CHECK_DEADLOCK FALSE
INVARIANT AlwaysAvailable
