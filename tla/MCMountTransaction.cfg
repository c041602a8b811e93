SPECIFICATION Spec
CONSTANTS
    RuleCount = 2
    JournalCapacity = 2
    ScanMayMiss = TRUE
    HelperMayCrash = TRUE
INVARIANTS
    LeaseGuardsNamespace
    CommitIsTotal
    ReportMatchesStatus
PROPERTIES
    NamespaceFrozenOnceResumed
    OutcomeIsFinal
    BackendFixedByMutation
