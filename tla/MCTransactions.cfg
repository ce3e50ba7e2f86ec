\* A transaction with two overlapping reads, a writer outside transactions and a
\* collector, on three trees that share nodes.
CONSTANTS
    e = e  t1 = t1  t2 = t2  c1 = c1  c2 = c2  c3 = c3
    EmptyTree = e
    Cids <- MCCids
    Absent = Absent
    Unset = Unset
    Trees <- MCTrees
    Reach <- MCReach
    Names = {a}
    Stamps = {s1}
    Txs = {x}
    Writers = {w1}
    Collectors = {g}
    MaxInflight = 2
    MaxSwaps = 1
SPECIFICATION Spec
SYMMETRY Symmetry
INVARIANTS TypeOK RepeatableReads RootsComplete
PROPERTIES AppliedReadsAreCurrent SwapReplacesItsBase
