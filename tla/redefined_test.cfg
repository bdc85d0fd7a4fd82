CONSTANTS
    e1 = e1
    e2 = e2
    p1 = p1
    t1 = t1
    i1 = i1
    i2 = i2
    Entries <- MCEntries
    Paths <- MCPaths
    Tests <- MCTests
    Drafts <- MCDrafts
    Samples <- MCSamples
    Heated <- MCHeated
    InitialLogs <- MCInitialLogs
    Workloads <- MCRedefinitions
    Importers <- MCImporters
    SeedFiles <- MCSeedFiles
    Links <- MCLinks
    Types <- MCTypes
    Bulk <- MCImporters
    Items = 2
    MaxTurns = 2
    MaxTime = 1
    MaxEdges = 3
SPECIFICATION KbSpec
INVARIANT ReplayNeverFails
CHECK_DEADLOCK FALSE
