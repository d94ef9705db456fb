SPECIFICATION CacheFairSpec
CONSTANTS
    p1 = p1
    p2 = p2
    j1 = j1
    j2 = j2
    j3 = j3
    k1 = k1
    k2 = k2
    NoDir = NoDir
    Procs = {p1, p2}
    Jobs = {j1, j2, j3}
    Keys = {k1, k2}
    Script <- MCScript
    KeyOf <- MCKeyOf
    PoolTimeouts = TRUE
    PartialOutput = FALSE
    Clearing = FALSE
CHECK_DEADLOCK FALSE
INVARIANTS CompleteEntries WorkerUndisturbed NameKept WaitSettlesAll
PROPERTY WrapperEnds
