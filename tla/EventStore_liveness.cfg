SPECIFICATION FairSpec
CONSTANTS
    Producers = {p1, p2}
    Readers = {r1}
    Closer = cl
    MaxLen = 2
    QueueMax = 2
    LagMark = 1
    BatchSize = 2
    Strict = FALSE
    QuietClose = TRUE
    WriterMayFail = FALSE
    MaxAppends = 2
PROPERTIES
    FlushReturns
    CloseReturns
CHECK_DEADLOCK FALSE
