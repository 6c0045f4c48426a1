SPECIFICATION PlayersSpec
CONSTANTS
    Ids <- MCIds
    Tags <- MCTags
    ShortOf <- MCShortOf
    HostIds <- MCHostIds
    HostRows <- MCHostRows
    MaxBatch = 2
    MaxRounds = 2
INVARIANTS
    PlayersTypeOK
    SharesAlign
    EveryMatchOnce
    
