CONSTANTS
    p1 = p1
    p2 = p2
    Pairs = {p1}
    SlotChoices = {{p1}}
    MaxRows = 1
    RetriedRows = 1
    PaperRows = 1
    RowsBeside = 1
    PageSize = 1
    IsPaper = FALSE
    Transport = "nats"
    RetryMaxAge = 0
    DedupWindow = 0
    MaxLag = 0
    MaxTime = 0
    MaxCopies = 1
SPECIFICATION LiveBook
PROPERTIES AcceptedIsRecorded PairResumes
