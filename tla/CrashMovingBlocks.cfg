SPECIFICATION Spec
CONSTANTS
    Modes <- DatabaseMode
    RocksCaches = {r1, r2}
    CrashPoints <- DropWindow
    MaxRollback = 2
    MaxMemoryRollback = 0
    MaxCommits = 2
    MaxHeight = 4
    MaxCrashes = 1
INVARIANT
    RecoverySucceeds
