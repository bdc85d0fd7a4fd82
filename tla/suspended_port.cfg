SPECIFICATION FairSpec
CONSTANTS
    N = 3
    KindsOf <- Mixed
    MaxRestarts = 0
    MaxKills = 0
    MaxCrashes = 0
PROPERTY EveryCallEnds
CHECK_DEADLOCK FALSE
