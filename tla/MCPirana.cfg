CONSTANTS
    N = 8
    Singles <- MCSingles
    Batched <- MCBatched
    Hashes <- MCHashes
    Batches <- MCBatches
    MaxBatches = 2
    MaxProbe = 2
    Word = 16
SPECIFICATION PiranaSpec
CHECK_DEADLOCK FALSE
INVARIANTS
    PiranaTypeOK
    SingleRight
    BatchRight
    SupportedNeverFaults
