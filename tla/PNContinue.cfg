SPECIFICATION Spec
CONSTANTS
    Star <- PowerStar
    Geodesic <- AllGeodesics
    Kind <- PowerKind
    In <- PowerIn
    Out <- PowerOut
    Gain <- PowerGain
    InitValue <- PowerInit
    Delays <- NoDelays
    NumInit <- DelayCount
    Stream <- Solution
    Modes <- HaltMode
    Horizon = 10
INVARIANTS
    ContinuedRunHasThreads
CHECK_DEADLOCK FALSE
