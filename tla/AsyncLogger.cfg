\* Four Write calls, a channel of two, a flush every two entries.
SPECIFICATION FairSpec
CONSTANTS
    e1 = e1
    e2 = e2
    e3 = e3
    e4 = e4
    Entries <- FourEntries
    BufferSize = 2
    BatchFlushThreshold = 2
INVARIANTS
    TypeOK
    DrainIsFinal
PROPERTIES
    ImplementsDurableLog
    AcceptedIsFlushed
    CloseEnds
CHECK_DEADLOCK FALSE
