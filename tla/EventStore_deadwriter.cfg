SPECIFICATION FairSpec
CONSTANTS
    Producers = {p1}
    Readers = {r1}
    Closer = cl
    MaxLen = 2
    QueueMax = 2
    LagMark = 1
    BatchSize = 1
    Strict = FALSE
    QuietClose = TRUE
    WriterMayFail = TRUE
    MaxAppends = 3
PROPERTIES
    DrainUnblocksProducers
CHECK_DEADLOCK FALSE
