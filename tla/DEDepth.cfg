SPECIFICATION Spec
CONSTANTS
    MaxStars = 3
    MaxArcs = 4
    Galaxy <- SmallGalaxies
INVARIANTS
    DelayFreeLoopsAreFound
    UndefinedOrderIsReported
    DepthIsLongestPath
CHECK_DEADLOCK FALSE
