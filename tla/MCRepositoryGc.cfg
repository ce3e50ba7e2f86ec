SPECIFICATION FairSpec
CONSTANTS
    None = None
    Root = Root
    p = p
    x = x
    Puts = {p}
    Resets = {r}
    PayloadOf <- MCPayloadOf
    Workers = {g}
    Grace = 2
    TicketTicks = 1
    MaxClock = 3
    MaxEpochs = 1
    MaxFaults = 1
INVARIANTS
    TypeOK
    ClosureComplete
    MarkingWaitsForTickets
PROPERTY
    AdmissionReopens
CHECK_DEADLOCK FALSE
