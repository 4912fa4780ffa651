SPECIFICATION FairSpec
CONSTANTS
    NRows = 2
    NCols = 6
    MaxPixels = 9
INVARIANTS
    TypeOK
    NoInvalidPop
    SmoothedInOrder
    NeighboursAdjacent
PROPERTIES
    Termination
