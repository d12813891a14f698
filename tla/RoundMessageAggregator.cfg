SPECIFICATION RoundSpec
CONSTANTS
    v1 = v1
    v2 = v2
    v3 = v3
    v4 = v4
    Blocks <- MCBlocks
    Ancestors <- MCAncestors
    Voters <- MCVoters
    Weight <- MCWeight
    Threshold = 67
    Size = 100
    UintModulus = 65536
    Starts <- MCStarts
    MaxHashesPerPoint = 3
    EpochMinHeight = 1
    EpochMaxHeight = 3
INVARIANTS
    WeightsMatchMessages
PROPERTIES
    BestPrecommitExtends
    CompletedRoundIsBounded
SYMMETRY Symmetry
