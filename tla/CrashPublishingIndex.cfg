SPECIFICATION Spec
CONSTANTS
    Modes <- DatabaseMode
    RocksCaches = {r1, r2}
    CrashPoints <- PublishWindow
    MaxRollback = 0
    MaxMemoryRollback = 0
    MaxCommits = 1
    MaxHeight = 3
    MaxCrashes = 1
INVARIANT
    BrokerCatchesUp
