CONSTANTS
    Prime = 97
    Xi = 28
    Points = 32
    N = 64
    Batches = {1, 2, 4, 8, 16, 32}
    OddBatch = 8
    OddCols = 4
    KeyLevels = 4
    Tables <- MCTables
    IdLists <- MCIdLists
    MaxBlocks = 2
    MaxQueries = 1
    Garbage = {1}
    Masks <- MCMasks
    Shares <- MCShares
SPECIFICATION Spec
INVARIANT
    SharesAlwaysAddUp
