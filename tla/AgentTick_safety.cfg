SPECIFICATION FairSpec
CONSTANTS
    Tracks = {t1, t2}
    Sensors = {s1, s2}
    DeadAge = 1
    MaxFrameSensors = 1
    MaxDetections = 1
    QueueMax = 1
INVARIANTS
    TypeOK
    ContactsConsistent
    FrameSlotsBounded
    CriticalHoldsError
    CommandsHaveCause
PROPERTIES
    ErrorClears
    SubscriberSettles
