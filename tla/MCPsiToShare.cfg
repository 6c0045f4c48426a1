SPECIFICATION Spec
CONSTANTS
    Ids <- MCIds
    Tags <- MCTags
    ShortOf <- MCShortOf
    HostIds <- MCHostIds
    HostRows <- MCHostRows
    FeatureNum = 1
    HostLog = 2
    Data <- MCData
    P = 3
    Drivers = {"count", "file", "ratio"}
    ClientInputs <- MCInputs
INVARIANTS
    TypeOK
    InOrder
    SizesAgree
    RowsDistinct
    OutputsAlign
    FilesAlign
PROPERTIES
    
    ImplementsAlignment
