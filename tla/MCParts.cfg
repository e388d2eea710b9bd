SPECIFICATION Spec
CONSTANTS
    Capabilities = {c1}
    MaxAuth = 1
    MaxRequests = 1
    MaxFaults = 1
    A = A
    B = B
    a1 = a1
    a2 = a2
    b1 = b1
    MaxStreams = 3
    MaxFrames = 1
    ReadQueue = 1
    PrefaceLimit = 2
    a = a
    b = b
    OutTransfers = {a, b}
    Buffers = {f1, f2}
    AckTimeout = 1
    RetryLimit = 1
    InTransfers = {t1, t2}
    Writers = {w1, w2}
    ChunkCount = 2
    MaxMemory = 1
    MaxFileFaults = 1
    ResumeChunks = 2
    MaxSessions = 2
    MaxResumes = 2
    MaxGroups = 2
    MaxUses = 2
    MaxRoutes = 2
    QueueFrames = 3
    QueueBytes = 6
CONSTRAINTS ThreeStayOpen CloseFirstAtA
INVARIANTS
    TypeOK
    OnlyAuthenticatedServed
    DisconnectMatchesConnect
    FailsOnlyWhenOvertaken
    CloseLeavesNothing
    ErrorsOnlyAfterYield
    DeadlineKept
    WrittenIntact
    BodiesSeparate
    NoFileLeft
    
    WireSound
    BoundedBypass
    FramesAccounted
    BytesAccounted
PROPERTIES
    UnauthenticatedEnds
    CloseFinishes
    ResumeDelivers
CHECK_DEADLOCK FALSE
