SPECIFICATION Spec
CONSTANTS
    n1 = n1
    n2 = n2
    n3 = n3
    n4 = n4
    Blocks <- MCBlocks
    Ancestors <- MCAncestors
    Heads <- MCHeads
    Voters <- MCFourVoters
    Weight <- MCEqualWeight
    Threshold = 67
    Size = 100
    UintModulus = 65536
    VotingSetEndHeight = 4
    PrevoteBlocksMultiple = 1
    MaxHashesPerPoint = 3
    MaxPoint = 1
    Crashing <- MCOneOfFour
    MaxCrashes = 2
    MaxLostSaves = 2
INVARIANTS
    Agreement
SYMMETRY SymmetryOfFour
CHECK_DEADLOCK FALSE
