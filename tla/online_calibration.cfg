SPECIFICATION FairSpec
CONSTANTS
    NaN = NaN
    HalfW = 2
    HalfH = 2
    Vertices = {1, 2, 3}
    Section <- McSection
    Images <- McImages
    Places <- McPlaces
    Unit = 60
    Coefficients <- McCoefficients
    MaxStep = 4
    MinStep = 1
    GainPerStep = 1
    MaxBackTrackIters = 3
    MaxOptimizationIters = 3
    MinCostDelta = 1
    MaxMovement = 60
    MaxFromOrigin = 120
INVARIANTS
    CalibCostMatches
    AdoptedNotDrifted
    ValidNotWorse
PROPERTIES
    Termination
