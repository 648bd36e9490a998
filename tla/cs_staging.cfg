SPECIFICATION Troubled
CONSTANTS
    MaxTime = 3
    Limit = 2
    Attempts = 2
    MaxPublished = 2
    MaxReplays = 1
    RedisFails = FALSE
    Resends = FALSE
    Crashes = FALSE
    VendorMoves = FALSE
    OperatorFlushes = FALSE
    OperatorAsks = FALSE
    Batches = FALSE
INVARIANTS
    ClosesAreAnnounced
    HistoryIsOrdered
PROPERTIES
    ClosesAreKept
