SPECIFICATION Spec
CONSTANTS
    Chains <- MCChains
    StartChains <- MCStartChains
    Peers <- MCPeers
    p1 = p1
    Capacity = 2
    MaxEvents = 2
    MaxFaults = 1
    HashesPerBatch = 3
    BlocksPerPull = 2
    MaxUnprocessed = 3
INVARIANTS
    TypeOK
    ElementsMatchQueue
    CompareExact
PROPERTIES
    ContinuesAcceptedRange
    OnlyBetterChains
    FinalizedKept
    SyncAvailable
    CatchesUp
