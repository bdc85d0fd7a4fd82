CONSTANTS
    e1 = e1
    e2 = e2
    p1 = p1
    t1 = t1
    i1 = i1
    i2 = i2
    Entries <- MCEntries
    Paths <- MCPaths
    Tests <- MCTests
    Drafts <- MCDrafts
    Samples <- MCSamples
    Heated <- MCHeated
    InitialLogs <- MCInitialLogs
    Workloads <- MCWorkloads
    Importers <- MCImporters
    SeedFiles <- MCSeedFiles
    Links <- MCLinks
    Types <- MCTypes
    Bulk <- MCImporters
    Items = 2
    MaxTurns = 2
    MaxTime = 1
    MaxEdges = 2
SYMMETRY MCSymmetry
SPECIFICATION KbSpec
INVARIANTS AgreesWithLog ReplayNeverFails CompactionIsFixpoint
INVARIANTS ImportsOnce ImportedStays BulkIsWhole TurnsDigested OffsetIsPeak
PROPERTIES HistoryStands NoEvidenceRevived VectorsAreOfTheText
CHECK_DEADLOCK FALSE
