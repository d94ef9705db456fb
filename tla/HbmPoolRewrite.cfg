SPECIFICATION MCSpec
CONSTANTS
    Parts = {"hbm"}
    p1 = p1
    p2 = p2
    w1 = w1
    w2 = w2
    Candidates <- MCCandidates
    ParentLists <- MCParentLists
    MaxBuffers = 3
    Limit = 6
    Alignment = 2
    Unplaced = Unplaced
    MaxNodes = 4
    NumStorages = 3
    MaxVersions = 2
    MaxReads = 1
    Rewrites = TRUE
    Items = {1, 2, 3}
    SegmentSize = 3
    None = None
    Sizes <- MCSizes
    Procs = {p1, p2}
    MaxHooks = 2
    MaxFails <- MCFails
    Keep = 1
    NoReport = NoReport
    MaxTime = 4
    Base = 1
    Overlap = 1
    MaxCatchup = 2
    Workers = 2
    FlushAt = 2
    SliceRuns <- MCSliceRuns
    Fillers = {w1, w2}
CHECK_DEADLOCK FALSE
INVARIANT ReadsIntact
