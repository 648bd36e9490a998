SPECIFICATION Replay
CONSTANTS
    Step = 2
    Budget = 3
    BaseRisk = 1
    MaxRisk = 3
    DynamicRisk = TRUE
    Risks = {0, 5}
    MaxQuantity = 0
    Prices = {1, 2, 3, 4}
    MaxBars = 3
    MaxIntents = 3
    MaxEntries = 2
    Stops <- AllStops
    Proposals = {}
    CloseActions = {}
    HalfSpread = 1
    MovesStop = TRUE
    Weekends = FALSE
    NoLevel = NoLevel
INVARIANTS
    ExposureIsBounded
    

    
CHECK_DEADLOCK FALSE
