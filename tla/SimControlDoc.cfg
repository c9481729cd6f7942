SPECIFICATION Spec
CONSTANTS
    Thread = {"main", "other"}
    a1 = a1
    a2 = a2
    a3 = a3
    Action = {a1, a2, a3}
    None = None
    Modes <- PanelModes
INVARIANTS
    CancelledActionsAreNotUsed
CHECK_DEADLOCK FALSE
