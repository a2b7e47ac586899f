\* A restore that is rerun until it is through, beside builds with the override.
SPECIFICATION FairSpec
CONSTANTS
    s1 = s1
    s2 = s2
    Stores = {s1}
    MaxEpoch = 2
    Affected <- MCAffected
    SizeOf <- DistinctSize
    Builds <- AllBuilds
    MaxTransitions = 1
    MaxRev = 1
    Serial = TRUE
    InOrder = TRUE
    AllowDowngrade = TRUE
PROPERTIES
    RestoreFinishes
    GateHonoursJournal
