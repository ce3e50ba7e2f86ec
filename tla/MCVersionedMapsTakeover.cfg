CONSTANTS
    t0 = t0  t1 = t1  t12 = t12  put1 = put1  put12 = put12  del2 = del2
    h = h  st = st  x = x  y = y
    Names <- MCNames
    Trees <- MCTrees
    EmptyTree = t0
    Stamps = {s1}
    Cids = {}
    Reach <- MCReach
    Absent = Absent
    Unset = Unset
    HeadName = h
    StateName = st
    Clients = {x, y}
    Kinds <- Managed
    Mutations <- MCMutations
    Batch <- MCBatch
    Backup <- MCBackup
    MaxRetries = 2
    None = None
SPECIFICATION Spec
PROPERTIES TakeoverRejectsUsedMap
