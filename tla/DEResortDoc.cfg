SPECIFICATION Spec
CONSTANTS
    Arc = {1, 2}
    Level = {0, 1}
    MaxPath = 2
    MaxEvents = 4
INVARIANTS
    BothAreResorted
CHECK_DEADLOCK FALSE
