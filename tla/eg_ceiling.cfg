SPECIFICATION Spec
CONSTANTS
    Pairs = {p, q}
    CyclesPerPair = 2
    Ceiling = 2
    MaxEntries = 2
    Week = 4
    FlatFrom = 2
    FlatUntil = 1
    MaxTime = 2
    StartTime = 1
    MaxTicks = 1
    MaxCloses = 1
    Ambiguous = TRUE
SYMMETRY PairSymmetry
INVARIANTS
    OnlyRecoveriesOverfill
    ReservationsReturn
CHECK_DEADLOCK FALSE
