SPECIFICATION Spec
CONSTANTS
    p1 = p1
    p2 = p2
    k1 = k1
    k2 = k2
    Procs = {p1, p2}
    NoProc = NoProc
    NoEmbed = {}
    Keys = {k1, k2}
    NoCursor = NoCursor
    Window = 1
    PoisonAttempts = 2
    MaxAttempts = 2
    InitialLogs <- NoLogs
    BadFlags = {FALSE}
    Faults = {"kill", "power", "sync"}
    MaxFaults = 2
    MaxEvents = 2
    MaxBatch = 2
    MaxGen = 1
SYMMETRY ProcKeySymmetry
INVARIANT AckedSurvives
PROPERTY KeepsPromise
