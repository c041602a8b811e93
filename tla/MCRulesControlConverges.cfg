SPECIFICATION ControlSpec
CONSTANTS
    Gens <- TwoPolicies
    Sources <- TwoSources
    Faults <- NoFaults
    ControlFaults <- AllControlFaults
    EarlyEdits = FALSE
    MaxEdits = 2
    MaxSaves = 1
    MaxDeaths = 1
PROPERTIES Converges
CHECK_DEADLOCK FALSE
