SPECIFICATION Spec
CONSTANTS
    Producers = {p1, p2}
    Readers = {r1}
    Closer = cl
    MaxLen = 2
    QueueMax = 2
    LagMark = 1
    BatchSize = 2
    Strict = FALSE
    QuietClose = FALSE
    WriterMayFail = TRUE
    MaxAppends = 2
SYMMETRY ProducerSymmetry
INVARIANTS
    TypeOK
    PutsReachDatabaseInOrder
    JoinCounterExact
    FlushSeesAcceptedRows
    CloseKeepsAcceptedRows
    LockOwnerInside
PROPERTIES
    DatabaseIsPrefix
CHECK_DEADLOCK FALSE
