CONSTANTS
    p1 = p1
    p2 = p2
    Pairs = {p1, p2}
    SlotChoices = {{p1}}
    MaxRows = 3
    RetriedRows = 1
    PaperRows = 2
    RowsBeside = 1
    PageSize = 1
    IsPaper = FALSE
    Transport = "nats"
    RetryMaxAge = 1
    DedupWindow = 2
    MaxLag = 1
    MaxTime = 3
    MaxCopies = 2
SPECIFICATION EveryBook
INVARIANTS TypeOK OneOutstanding AtMostOnce BooksAreTrue
PROPERTIES NeverResendAccepted
