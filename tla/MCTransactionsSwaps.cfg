CONSTANTS
    e = e  t1 = t1  t2 = t2  c1 = c1  c2 = c2  c3 = c3
    EmptyTree = e
    Cids <- MCCids
    Absent = Absent
    Unset = Unset
    Trees <- MCEmptyOnly
    Reach <- MCEmptyReach
    Names = {a}
    Stamps = {s1}
    Txs = {x}
    Writers = {}
    Collectors = {}
    MaxInflight = 2
    MaxSwaps = 2
SPECIFICATION Spec
SYMMETRY Symmetry
PROPERTIES SwapReplacesWhatItCompared
