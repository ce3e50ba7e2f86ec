SPECIFICATION Spec
CONSTANTS
    None = None
    h1 = h1
    h2 = h2
    w1 = w1
    w2 = w2
    p = p
    s = s
    x = x
    Handles <- MCHandles
    WriterOf <- MCWriterOf
    Puts <- MCPuts
    Sessions <- MCSessions
    Elsewhere <- MCElsewhere
    Kinds = {"init", "open", "put", "begin", "resume", "session", "reset", "takeover", "renew"}
    LeaseTicks = 2
    RetainGenerations = 1
    RetainTicks = 0
    MaxClock = 2
    MaxCalls = 5
    MaxFaults = 1
ACTION_CONSTRAINT LastIsSession
SYMMETRY Swap
INVARIANTS
    TypeOK
    ActiveLeaseOwnsRef
    AckedIsPublished
    SessionOnce
PROPERTIES
    BranchContract
CHECK_DEADLOCK FALSE
