SPECIFICATION Spec
CONSTANTS
    Tables <- MCTables
    Plans <- MCPlans
    Objects <- MCObjects
    ForeignSpots <- MCForeignSpots
    ForeignRoots <- MCForeignRoots
    MaxForeign = 2
    Failures <- AllFailures
INVARIANTS IdentifiedIsOwn OnlyOwnUnmounted RolledBackIsGone QuietRollbackIsClean CommittedTakesEffect
CHECK_DEADLOCK FALSE
