SPECIFICATION Spec
CONSTANTS
    box = box
    host = host
    Places = {box, host}
    Containers = {box}
    Ids = {i1, i2, i3, i4}
    Tokens = {t1, t2, t3}
    None = None
    OperatorConfirms = TRUE
    Faults = {"silence", "timeout", "cleanup"}
SYMMETRY Names
INVARIANTS
    ActorHoldsClaim
PROPERTIES
    LiveClaimIsKept
CHECK_DEADLOCK FALSE
