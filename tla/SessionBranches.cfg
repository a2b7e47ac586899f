\* Any two registrations among an agent's, a UI-only and a bridge task, with two
\* crashes; beside them a session's file of up to MaxEntries entries, with two mishaps.
SPECIFICATION SpecBeside
CONSTANTS
    a1 = a1
    u1 = u1
    b1 = b1
    f1 = f1
    Agent = {a1}
    Ui = {u1}
    Bridge = {b1}
    Foreign = {}
    Aged = {a1}
    MaxAttempt = 2
    MaxMade = 2
    MaxCrash = 2
    SessionScans = FALSE
    RetryMidDelivery = FALSE
    MaxEntries = 6
    MaxMishaps = 2
INVARIANTS
    TypesOK
    NothingToldTwice
    ReopeningShowsTheBranch
    FencedIsDiscarded
PROPERTIES
    OutcomesMeetTheirCall
    ImplementsMailbox
