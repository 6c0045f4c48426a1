CONSTANTS
    Shapes <- MCShapes
    PoolSizes = {1, 3}
    Swaps <- MCSwaps
    Boxes <- MCBoxes
SPECIFICATION Spec
CHECK_DEADLOCK FALSE
INVARIANTS
    TypeOK
    MeetRight
    Punctured
    SharesUpToLocal
PROPERTIES
    BothReturn
