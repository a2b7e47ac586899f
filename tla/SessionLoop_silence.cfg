\* Two deliveries at once, desktop and bridge targets, three commands, one crash.
SPECIFICATION Spec
CONSTANTS
    Call = {c1, c2}
    Kinds = {"desktop", "bridge"}
    MaxTurns = 2
    MaxFailures = 2
    Retries = 1
    MaxBusy = 1
    MaxCommands = 3
    MaxCrash = 1
SYMMETRY Alike
INVARIANTS
    AlarmIsArmed
PROPERTIES
    SilenceHasACause
