SPECIFICATION Troubled
CONSTANTS
    Fast = fast
    Slow = slow
    Timeframes = {fast, slow}
    Length <- Lengths
    Horizon = 5
    MaxTicks = 3
    MaxCrashes = 1
    MaxFaults = 0
    MaxFlushes = 0
    StartTakesTime = FALSE
    SocketGaps = FALSE
    LateQuotes = FALSE
INVARIANTS
    QuotesSurvive
PROPERTIES
    StagesForward
    StagedBarsAreTrue
CHECK_DEADLOCK FALSE
