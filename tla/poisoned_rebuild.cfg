SPECIFICATION FairSpec
CONSTANTS
    p1 = p1
    p2 = p2
    k1 = k1
    k2 = k2
    Procs = {p1}
    NoProc = NoProc
    NoEmbed = {}
    Keys = {k1}
    NoCursor = NoCursor
    Window = 1
    PoisonAttempts = 2
    MaxAttempts = 2
    InitialLogs <- PoisonedLogs
    BadFlags = {FALSE, TRUE}
    Faults = {}
    MaxFaults = 0
    MaxEvents = 1
    MaxBatch = 1
    MaxGen = 0
PROPERTY PoisonDoesNotBrick
