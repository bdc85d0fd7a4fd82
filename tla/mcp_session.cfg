SPECIFICATION FairSpec
CONSTANTS
    N = 3
    KindsOf <- Mixed
    MaxRestarts = 1
    MaxKills = 1
    MaxCrashes = 1
INVARIANTS OwnResult ExecutedOnce DrainedAtEof
PROPERTY EveryLineAnswered
CHECK_DEADLOCK FALSE
