SPECIFICATION Spec
CONSTANTS
    Ids <- MCIds
    Tags <- MCTags
    ShortOf <- MCShortOf
    HostIds <- MCHostIds
    HostRows <- MCHostRows
    Labels <- MCLabels
    Modulus = 8
    PaillierN = 35
    MaxBatch = 2
INVARIANTS
    WordsAlign
    DifferingBitsTell
