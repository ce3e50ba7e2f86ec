\* Every path of a write, a diff and a merge on trees of up to three levels, in
\* three kinds of format with two seeds each.
CONSTANTS
    N = 7
    small = small
    large = large
    other = other
    None = None
    Error = Error
    Keys <- MCKeys
    Values <- MCValues
    Formats <- MCFormats
    KeyCut <- MCKeyCut
    PairCut <- MCPairCut
    ChunkCut <- MCChunkCut
    Bytes <- MCBytes
    Batches <- MCBatches
    Ranges <- MCRanges
    Guard = 1
    Forks <- MCForks
    Snapshots <- MCSnapshots
    Limits = {1, 2, 9}
    Resolvers = {"none", "right", "delete"}
SPECIFICATION Spec
INVARIANTS
    TypeOK ContentExact Routed BuildersAgree CanonicalBelowRoot
    DiffsExact MergeExact MergeCanonical
