SPECIFICATION Spec
CONSTANTS
    None = None
    h1 = h1
    h2 = h2
    w1 = w1
    w2 = w2
    p = p
    s = s
    x = x
    Handles <- MCHandles
    WriterOf <- MCWriterOf
    Puts <- MCPuts
    Sessions <- MCSessions
    Elsewhere <- MCElsewhere
    Kinds = {"init", "create", "put", "delete", "takeover"}
    LeaseTicks = 1
    RetainGenerations = 1
    RetainTicks = 0
    MaxClock = 0
    MaxCalls = 5
    MaxFaults = 0
INVARIANTS
    ActiveLeaseOwnsRef
CHECK_DEADLOCK FALSE
