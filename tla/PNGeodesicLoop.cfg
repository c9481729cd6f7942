SPECIFICATION FairSpec
CONSTANTS
    a = a
    b = b
    g1 = g1
    g2 = g2
    Star = {a, b}
    Geodesic = {g1, g2}
    NoThread = NoThread
    Src <- LoopSrc
    Dst <- LoopDst
    NumInit <- LoopInit
    MaxPut = 2
    MaxCap = 2
INVARIANTS
    TypeOK
    MutualExclusion
    InOrder
    WithinCapacity
    NumFullCountsWriters
    NoLostWakeup
PROPERTIES
    ImplementsChannels
    WriterIsReleased
    ReaderIsServed
    DeletionCompletes
CHECK_DEADLOCK FALSE
