SPECIFICATION Spec
CONSTANTS
    MaxPathBytes = 9
    MaxPathComponents = 2
    MaxComponentBytes = 6
    DenyPaths <- AnyPaths
    Sources <- AnySources
    Targets <- AnyTargets
    Package <- a
    Flags <- AnyFlags
    Earlier <- AnyEarlier
    MaxRedirects = 3
    MaxDeny = 3
    MaxRules = 3
    MaxDiagnostics = 2
INVARIANTS NeighboursFindConflicts RejectionJustified DenyCoverage 
CHECK_DEADLOCK FALSE
