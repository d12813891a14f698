SPECIFICATION Spec
CONSTANTS
    MaxReaders = 3
    MaxWriters = 3
    SubCaches <- MCSubCaches
    Txs <- MCTxs
    Conflicts <- MCConflicts
    Requires <- MCRequires
    MaxTransactionsPerBlock = 2
    MaxCacheSize = 3
    StartChain <- MCStartChain
    PeerChains <- MCPeerChains
    NewBatches <- MCNewBatches
    MaxRollback = 1
    MaxPeerChains = 2
    MaxBatches = 1
    HarvestScore = 3
    MaxHarvests = 1
INVARIANTS
    LocksExclusive
    UnconfirmedStateCurrent
    CommitsSeenWhole
    DeltaOfOneChain
    HarvestedBlockValid
PROPERTIES
    NoTransactionLost
    RebaseFollowsCommit
    OperationsEnd
    HarvestingResumes
CHECK_DEADLOCK FALSE
