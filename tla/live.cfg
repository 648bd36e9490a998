SPECIFICATION Spec
CONSTANTS
    Systems = {"feed", "weekend", "switches", "ticks"}
PROPERTIES
    StoredBarsArrive
    WeekendEndsFlat
    ModeReachesTheRunner
    EndedBarsAreStaged
CHECK_DEADLOCK FALSE
