\* Scans, own and stray, and retries at any time; deliveries that succeed at last.
SPECIFICATION LiveSpec
CONSTANTS
    a1 = a1
    u1 = u1
    b1 = b1
    f1 = f1
    Agent = {a1}
    Ui = {}
    Bridge = {b1}
    Foreign = {f1}
    Aged = {b1}
    MaxAttempt = 2
    MaxMade = 2
    MaxCrash = 1
    SessionScans = TRUE
    RetryMidDelivery = TRUE
CONSTRAINT Apart
PROPERTIES
    FencedStaysSilent
    OutcomeReachesParent
