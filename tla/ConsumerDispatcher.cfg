SPECIFICATION FairSpec
CHECK_DEADLOCK FALSE
CONSTANTS
    NumConsumers = 2
    Capacity = 3
    MaxMemory = 4
    Sizes = {1, 2}
    MaxElements = 4
INVARIANTS
    TypeOK
    ElementInUseIntact
    CompletedInOrder
    MemoryAccounted
    SkippedElementsBypassConsumers
PROPERTIES
    EventuallyCompleted
    EventuallyStopped
