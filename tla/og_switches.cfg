SPECIFICATION OneSwitch
CONSTANTS
    Pairs = {"gold", "euro"}
    Names = {"XAU"}
    NamesOf <- GoldOnly
    Chats = {1}
    Configured = FALSE
    MaxGateCommands = 2
    MaxModeCommands = 3
    MaxBars = 2
    MaxStarts = 2
    ReadsMayFail = TRUE
PROPERTIES
    SendsHonourThePause
    PauseOutlivesRestart
CHECK_DEADLOCK FALSE
