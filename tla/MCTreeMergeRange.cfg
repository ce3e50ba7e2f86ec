\* Merging a range of keys, by keys and counts.
CONSTANTS
    N = 7
    small = small
    large = large
    other = other
    None = None
    Error = Error
    Keys <- MCKeys
    Values <- MCValues
    Formats <- MCByKeys
    KeyCut <- MCKeyCut
    PairCut <- MCPairCut
    ChunkCut <- MCChunkCut
    Bytes <- MCBytes
    Batches <- MCBatches
    Ranges <- MCRanges
    Guard = 1
    Forks <- MCForks
    Snapshots <- MCSnapshots
    Limits = {1, 2, 9}
    Resolvers = {"none", "right", "delete"}
SPECIFICATION Spec
INVARIANT MergeInRange
