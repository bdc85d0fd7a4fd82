CONSTANTS
    f1 = f1
    f2 = f2
    Files <- MCFiles
    Blocks <- MCBlocks
    Setups <- MCSetups
    MaxEntries = 2
    MaxCites = 2
SPECIFICATION Spec
INVARIANT TypeOK
PROPERTIES AddIsSnapshot HealIsConfirmed HealSettles MigrationRespells
CHECK_DEADLOCK FALSE
