\* One session, and three calls that load it, wait for the load or take it away.
SPECIFICATION LiveSpec
CONSTANTS
    None = None
    Session = {s1}
    Runtime = {r1, r2}
    Op = {p1, p2, p3}
    Calls = {"attach", "submit", "switch", "reload", "discard"}
    MaxCached = 1
    Overlap = "sessions"
    SlowTeardown = FALSE
PROPERTY JoinedReleased
