SPECIFICATION FairSpec
CONSTANTS
    Modes <- AllModes
    RocksCaches = {r1, r2}
    CrashPoints <- SafeWindows
    MaxRollback = 2
    MaxMemoryRollback = 0
    MaxCommits = 2
    MaxHeight = 4
    MaxCrashes = 2
INVARIANTS
    RunningNodeConsistent
    BrokerCatchesUp
    RecoverySucceeds
PROPERTIES
    CommitsAtomically
    EventuallyRunning
