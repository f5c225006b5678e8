\* Two instances, each with a handler and the background refresher.
SPECIFICATION FairSpec
CONSTANTS
    a = a
    b = b
    hA = hA
    hB = hB
    rA = rA
    rB = rB
    k1 = k1
    v1 = v1
    Instances <- TwoInstances
    Tasks <- FourTasks
    Refreshers <- TwoRefreshers
    Home <- HomeOf
    Selectors <- OneSelector
    Values <- OneValue
INVARIANTS
    TypeOK
    OwnWritesServed
PROPERTIES
    OwnRecordsRestored
    Converges
    LockReleased
