SPECIFICATION Spec
CONSTANTS
    MaxPathBytes = 5
    MaxPathComponents = 3
    MaxComponentBytes = 2
    DenyPaths <- DashPaths
    Sources <- DashPaths
    Targets <- OneTarget
    Package <- a
    Flags <- PlainFlags
    Earlier <- First
    MaxRedirects = 3
    MaxDeny = 1
    MaxRules = 4
    MaxDiagnostics = 16
INVARIANTS ConflictsRejected
CHECK_DEADLOCK FALSE
