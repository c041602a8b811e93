SPECIFICATION ControlSpec
CONSTANTS
    Gens <- TwoPolicies
    Sources <- ThreeSources
    Faults <- PublishFaults
    ControlFaults <- StatusFault
    EarlyEdits = TRUE
    MaxEdits = 2
    MaxSaves = 0
    MaxDeaths = 1
INVARIANTS StatusIsTruthful ActiveMeansDeployed
CHECK_DEADLOCK FALSE
