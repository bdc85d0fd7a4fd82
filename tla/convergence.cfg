SPECIFICATION FairSpec
CONSTANTS
    p1 = p1
    p2 = p2
    k1 = k1
    k2 = k2
    Procs = {p1, p2}
    NoProc = NoProc
    NoEmbed = {p2}
    Keys = {k1}
    NoCursor = NoCursor
    Window = 1
    PoisonAttempts = 2
    MaxAttempts = 2
    InitialLogs <- NoLogs
    BadFlags = {FALSE, TRUE}
    Faults = {"kill", "sync", "transient"}
    MaxFaults = 1
    MaxEvents = 1
    MaxBatch = 1
    MaxGen = 1
INVARIANT CursorIsTruth
PROPERTY RecoveryConverges
