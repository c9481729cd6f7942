SPECIFICATION FairSpec
CONSTANTS
    Graphs <- Galaxies
    Stops = {1, 2}
    NoStar = NoStar
INVARIANTS
    RepetitionsAreLeast
    ScheduleIsComplete
    DeadlockIsReal
    NoStarStarves
PROPERTIES
    CommandsReturn
CHECK_DEADLOCK FALSE
