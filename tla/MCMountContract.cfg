SPECIFICATION Spec
CONSTANTS
    RuleCount = 2
    JournalCapacity = 2
    ScanMayMiss = FALSE
    HelperMayCrash = TRUE
INVARIANTS
    FailOpenIsClean
PROPERTIES
    ImplementsContract
    LaunchTerminates
