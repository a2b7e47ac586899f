\* Crashes anywhere; an operator who keeps the processes apart and undoes
\* transitions in order.
SPECIFICATION Spec
CONSTANTS
    s1 = s1
    s2 = s2
    Stores = {s1, s2}
    MaxEpoch = 3
    Affected <- MCAffected
    SizeOf <- DistinctSize
    Builds <- AllBuilds
    MaxTransitions = 3
    MaxRev = 1
    Serial = TRUE
    InOrder = TRUE
    AllowDowngrade = FALSE
INVARIANTS
    BarrierCovers
    CheckpointKept
PROPERTIES
    ImplementsHome
