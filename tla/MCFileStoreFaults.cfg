CONSTANTS
    a = a  b = b  e = e  t1 = t1  s1 = s1  s2 = s2  c1 = c1  p = p  q = q  x = x  y = y  z = z
    Names = {a, b}
    Trees = {e, t1}
    EmptyTree = e
    Stamps = {s1, s2}
    Cids = {c1}
    Reach <- MCReach
    Absent = Absent
    Unset = Unset
    Clients = {x, z}
    Requests <- MCRequests
    Handles = {p, q}
    HandleOf <- MCHandleOf
    List = List
    None = None
    MaxFaults = 1
    MaxRestoreFaults = 1
    MaxCrashes = 1
SPECIFICATION FairSpec
INVARIANTS RootFilesComplete
PROPERTIES LockReleased
