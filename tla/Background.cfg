\* Two jobs, one of them of a single run; one task and one schedule; three review
\* turns of one session; three runs of subagents, of which one may make a thread at a time.
SPECIFICATION Spec
CONSTANTS
    j1 = j1
    j2 = j2
    Jobs = {j1, j2}
    OneTime = {j1}
    Place <- ThePlace
    MaxRev = 2
    MaxTrouble = 2
    Tasks = {t1, t2}
    Schedules = {s1}
    MaxRuns = 2
    MaxFaults = 2
    r1 = r1
    r2 = r2
    r3 = r3
    Reviews = {r1, r2, r3}
    NoReview = none
    MaxStops = 2
    MaxPlain = 1
    MaxThrows = 1
    a1 = a1
    a2 = a2
    a3 = a3
    Runs = {a1, a2, a3}
    Nobody = nobody
    Gate = gate
    MaxPerSession = 1
    MaxUpsets = 3
CONSTRAINT Apart
ACTION_CONSTRAINT FlushedInTime
INVARIANTS
    AutomationsTypeOK
    OneExecution
    
    EditStands
    OneRunAtATime
    StoppedIsSilent
    OneRunPerThread
    OutcomesAgree
    StoppedNeverSucceeds
    PutAwayStaysAway
PROPERTIES
    StartsWhatIsDue
    DueIsServed
    DueIsRun
    SessionReleased
    RunsSettle
CHECK_DEADLOCK FALSE
