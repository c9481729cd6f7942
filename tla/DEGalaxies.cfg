SPECIFICATION BothSpec
CONSTANTS
    Cases <- SmallCases
INVARIANTS
    NoError
    CausesComeFirst
    CountsAreExact
    SamplesAreLatest
    QueuedDataIsAccountedFor
    HaltsLoseOneEventEach
    SignalsAreDetermined
CHECK_DEADLOCK FALSE
