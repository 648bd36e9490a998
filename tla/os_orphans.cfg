SPECIFICATION Spec
CONSTANTS
    first = first
    second = second
    other = other
    Pairs = {"p", "q"}
    Cycles <- ThreeCycles
    PairOf <- PairOfCycle
    MaxCommands = 2
    MayHang <- Exchangeable
    Deployments <- AllDeployments
    Mode = "close"
    OperatorFlat = TRUE
    RecordMayBeCut = TRUE
SYMMETRY Exchanged
INVARIANTS
    SettlesOnce
    
    NothingForgotten
