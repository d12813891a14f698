SPECIFICATION Spec
CONSTANTS
    n1 = n1
    n2 = n2
    n3 = n3
    n4 = n4
    Blocks <- MCBlocks
    Ancestors <- MCAncestors
    Heads <- MCHeads
    Voters <- MCVoters
    Weight <- MCWeight
    Threshold = 67
    Size = 100
    UintModulus = 65536
    VotingSetEndHeight = 4
    PrevoteBlocksMultiple = 1
    MaxHashesPerPoint = 3
    MaxPoint = 2
    Crashing <- MCHeaviest
    MaxCrashes = 1
    MaxLostSaves = 0
INVARIANTS
    Agreement
    PrecommitsCoverEarlierRounds
SYMMETRY Symmetry
CHECK_DEADLOCK FALSE
