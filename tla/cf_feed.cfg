SPECIFICATION Troubled
CONSTANTS
    MaxTime = 4
    Window = 3
    Warmup = 1
    MaxAge = 1
    InitialMarks = {0, 5}
    MaxDecisions = 3
    MarkFails = FALSE
    RedisFails = FALSE
    Gates = FALSE
    Crashes = FALSE
    Flushes = FALSE
INVARIANTS
    DecisionsAdvance
    FramesAreWhole
PROPERTIES
    MissedClosesAreFed
