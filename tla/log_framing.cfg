SPECIFICATION Spec
CONSTANTS
    TailWindow = 2
    SearchCap = 4
    InitialLogs <- Shapes
    MaxBatches = 2
    MaxSize = 2
    MaxFaults = 2
    MaxCompactions = 1
INVARIANTS ShortcutAgrees CursorSplits
PROPERTIES ReadersNeverBreak KeepsPromise
CHECK_DEADLOCK FALSE
