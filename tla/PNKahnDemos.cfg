SPECIFICATION FairSpec
CONSTANTS
    Star <- DemoStar
    Geodesic <- AllGeodesics
    Kind <- DemoKind
    In <- DemoIn
    Out <- DemoOut
    Gain <- DemoGain
    InitValue <- DemoInit
    Delays <- DemoDelays
    NumInit <- DelayCount
    Stream <- Solution
    Modes <- DemoModes
    Horizon = 34
INVARIANTS
    KahnPrinciple
    BlockedWritersAreCounted
PROPERTIES
    IterationIsComplete
    GrowthIsNeeded
    CommandsReturn
CHECK_DEADLOCK FALSE
