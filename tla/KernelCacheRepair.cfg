SPECIFICATION CacheSpec
CONSTANTS
    p1 = p1
    p2 = p2
    j1 = j1
    j2 = j2
    j3 = j3
    k1 = k1
    k2 = k2
    NoDir = NoDir
    Procs = {p1}
    Jobs = {j1, j3}
    Keys = {k1}
    Script <- SameTwice
    KeyOf <- OneKey
    PoolTimeouts = FALSE
    PartialOutput = FALSE
    Clearing = TRUE
CHECK_DEADLOCK FALSE
INVARIANT RecompileRepairs
