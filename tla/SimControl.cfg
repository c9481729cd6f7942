SPECIFICATION FairSpec
CONSTANTS
    Thread = {"main", "other"}
    a1 = a1
    a2 = a2
    a3 = a3
    Action = {a1, a2, a3}
    None = None
    Modes <- AllModes
INVARIANTS
    ActionsRunInTurn
PROPERTIES
    HaltIsKept
    EveryoneHalts
    PollGoesOn
CHECK_DEADLOCK FALSE
