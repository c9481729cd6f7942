SPECIFICATION Spec
CONSTANTS
    Uses <- SmallUses
INVARIANTS
    CalendarIsConsistent
    NoEventFromThePast
PROPERTIES
    ImplementsEarliestFirst
