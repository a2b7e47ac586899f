SPECIFICATION Spec
CONSTANTS
    None = None
    Session = {s1, s2}
    Runtime = {r1, r2, r3}
    Op = {p1, p2}
    Calls = {"attach", "submit", "direct", "deliver", "switch", "reload", "hibernate", "discard", "stop"}
    MaxCached = 1
    Overlap = "sessions"
    SlowTeardown = FALSE
SYMMETRY Alike
INVARIANTS
    OneWriter
    TurnKeepsRuntime
    StopIsFinal
