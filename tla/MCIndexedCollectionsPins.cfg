SPECIFICATION Spec
CONSTANTS
    None = None
    c1 = c1
    c2 = c2
    k1 = k1
    k2 = k2
    a = a
    b = b
    t1 = t1
    t2 = t2
    full = full
    n1 = n1
    d1 = d1
    d2 = d2
    pin1 = pin1
    Clients <- MCClients
    Keys <- MCOneKey
    Values <- MCValues
    Terms <- MCTerms
    Projections <- MCProjections
    Names <- MCNames
    Definitions <- MCDefinitions
    NameOf <- MCNameOf
    Generation <- MCGeneration
    Emits <- MCEmits
    Registry <- MCRegistry
    Historical <- MCHistorical
    Batches <- MCOneKeyBatches
    PinIds <- MCPinIds
    Kinds = {"apply", "pin", "keep_last"}
    MaxActive = 1
    MaxRetained = 3
    MaxDescriptors = 2
    MaxPins = 1
    MaxAttempts = 2
    MaxCalls = 5
INVARIANT
    PinnedReadable
CHECK_DEADLOCK FALSE
