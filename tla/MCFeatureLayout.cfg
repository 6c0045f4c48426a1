SPECIFICATION LayoutSpec
CONSTANTS
    Degree = 4
    InMem = 4
    Batches = {1, 2, 3, 4}
    DataSizes = {2, 4, 6, 8}
    MaxFeatures = 9
    MaxQueries = 2
INVARIANTS
    LayoutTypeOK
    FeaturesServed
    SupportedNeverFaults
