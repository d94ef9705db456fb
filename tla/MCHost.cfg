SPECIFICATION MCSpec
CONSTANTS
    b1 = b1
    b2 = b2
    b3 = b3
    c1 = c1
    c2 = c2
    s1 = s1
    s2 = s2
    s3 = s3
    s4 = s4
    m1 = m1
    m2 = m2
    c = c
    Buffers <- MCBuffers
    Base <- MCBase
    Capacity <- MCCapacity
    NoBuffer = NoBuffer
    Threads = {t1, t2}
    Dmas = {d1, d2}
    CtxThreads = {c1, c2}
    Streams = {s1, s2, s3, s4}
    Users <- Private
    Default = Default
    MaxDepth = 3
    MainThreads = {m1, m2}
    ChildThread = c
    Count = 3
    Requests = {2, 3}
    LocalRank = 1
    MaxCalls <- MCCalls
    Unset = Unset
CHECK_DEADLOCK FALSE
INVARIANTS NoReuseInFlight FreshOnAcquire LookupExact InnermostIsCurrent  
PROPERTIES ImplementsOwnership DroppedIsReturned RunsEnd
