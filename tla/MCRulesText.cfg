SPECIFICATION Spec
CONSTANTS
    Inputs <- MCInputs
    Limits <- MCLimits
INVARIANTS CompiledIsMeant MeantIsCompiled ErrorsPointAtSource NeverInternal
CHECK_DEADLOCK FALSE
