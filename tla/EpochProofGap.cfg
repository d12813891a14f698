SPECIFICATION Spec
CONSTANTS
    VotingSetGrouping = 2
    PrevoteBlocksMultiple = 1
    MaxHashesPerPoint = 2
    UnfinalizedBlocksDuration = 0
    EnableRevoteOnBoot = FALSE
    Decided <- MCDecidedLater
    ForkHeight = 2
    Heights = {3, 7}
    VotingRounds <- MCVotingRounds
    MaxForks = 0
    MaxCrashes = 0
INVARIANTS
    EpochsProven
