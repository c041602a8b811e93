SPECIFICATION LaunchSpec
CONSTANTS
    Gens <- MCGens
    Faults <- AllFaults
    Documents <- MCDocuments
    PackageNameHash <- Hashes
    MaxMountRules = 2
    MaxPlanPathBytes = 20
    Processes = {11, 20, 21, 30}
    Uids = {1000, 10050, 1110050}
    Storages <- MCStorages
INVARIANTS PolicyNeverTorn PublishedIsDurable LeasedPlanIsPolicy SteadyPolicyIsApplied LeasedSourceIsOnPlane PolicyReadsBack
