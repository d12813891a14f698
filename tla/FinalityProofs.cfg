SPECIFICATION Spec
CONSTANTS
    VotingSetGrouping = 3
    PrevoteBlocksMultiple = 1
    MaxHashesPerPoint = 2
    UnfinalizedBlocksDuration = 1
    EnableRevoteOnBoot = FALSE
    Decided <- MCDecided
    ForkHeight = 2
    Heights = {4, 7}
    VotingRounds <- MCVotingRounds
    MaxForks = 1
    MaxCrashes = 1
INVARIANTS
    EpochsProvenUnlessJumped
    RoundsInOrder
    PrevoteBackedUp
PROPERTIES
    StatisticsAdvance
    EpochCatchesUp
