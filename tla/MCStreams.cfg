SPECIFICATION MCSpec
CONSTANTS
    t1 = t1
    t2 = t2
    d0 = d0
    d1 = d1
    o1 = o1
    None = None
    Threads = {t1, t2}
    Devices = {d0, d1}
    Ops = {o1}
    NumLow = 2
    NumHigh = 1
    NumHost = 1
    Priorities <- BothPriorities
    CreateFails = TRUE
    MaxPicks = 1
    Nothing = Nothing
    Waiters = {w1, w2}
    Keys = {k1}
    Allocs = {a1, a2, a3}
    MaxWorks = 2
    MaxPlans = 1
SYMMETRY Symmetry
CHECK_DEADLOCK FALSE
INVARIANTS HeldResolves SyncCovers RoundRobin BorrowedAlive ConsumersAfterCollective OneOwner
