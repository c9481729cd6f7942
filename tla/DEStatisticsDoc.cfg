SPECIFICATION Spec
CONSTANTS
    Cases <- StatisticsCases
INVARIANTS
    DemandsAreAnswered
CHECK_DEADLOCK FALSE
