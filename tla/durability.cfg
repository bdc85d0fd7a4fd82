SPECIFICATION Spec
CONSTANTS
    p1 = p1
    p2 = p2
    k1 = k1
    k2 = k2
    Procs = {p1, p2}
    NoProc = NoProc
    NoEmbed = {}
    Keys = {k1}
    NoCursor = NoCursor
    Window = 1
    PoisonAttempts = 2
    MaxAttempts = 2
    InitialLogs <- LegacyLogs
    BadFlags = {FALSE}
    Faults = {"kill", "power", "rmdb", "busy"}
    MaxFaults = 1
    MaxEvents = 3
    MaxBatch = 1
    MaxGen = 1
SYMMETRY ProcSymmetry
INVARIANTS TypeOK CursorIsTruth LogTellsHistory
PROPERTY NoAckedRowTakenBack
