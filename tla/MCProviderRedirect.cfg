SPECIFICATION Spec
CONSTANTS
    PathMax = 4
    MaxRules = 3
    Threads = {t1}
    Requests = {r1, r2}
    Apps = {"A", "B"}
    Policies <- SomePolicies
    PathArgs <- SomeArgs
    Canonical <- Links
    ImportSets <- SomeImports
    FuseImportSets <- SomeFuseImports
    AllocMayFail = TRUE
    NestedCalls = FALSE
    LeakyHandlers = FALSE
    MaxCalls = 1
    MaxClears = 2
INVARIANTS CallerNeverGuessed CallerSeesView RewrittenOnce RealpathIsVisible PassiveUntilValidated HooksKeepModule
CHECK_DEADLOCK FALSE
