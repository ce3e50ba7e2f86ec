SPECIFICATION Spec
CONSTANTS
    None = None
    c1 = c1
    c2 = c2
    k1 = k1
    k2 = k2
    a = a
    b = b
    t1 = t1
    t2 = t2
    full = full
    n1 = n1
    d1 = d1
    d2 = d2
    pin1 = pin1
    Clients <- MCClients
    Keys <- MCKeys
    Values <- MCValues
    Terms <- MCTerms
    Projections <- MCProjections
    Names <- MCNames
    Definitions <- MCDefinitions
    NameOf <- MCNameOf
    Generation <- MCGeneration
    Emits <- MCEmits
    Registry <- MCRegistry
    Historical <- MCHistorical
    Batches <- MCBatches
    PinIds <- MCPinIds
    Kinds = {"ensure", "apply", "apply_if", "replace", "deactivate", "pin", "release",
             "keep_last", "repair", "restore", "remove", "rebuild"}
    MaxActive = 1
    MaxRetained = 2
    MaxDescriptors = 2
    MaxPins = 1
    MaxAttempts = 2
    MaxCalls = 5
INVARIANTS
    TypeOK
    IndexesMatchSource
    CountsExact
    CandidatesClosed
    ActiveIsSelected
PROPERTIES
    PinsHeld
    UpdatesChain
CHECK_DEADLOCK FALSE
