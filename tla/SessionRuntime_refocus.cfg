\* Loads of different sessions at the same time.
SPECIFICATION Spec
CONSTANTS
    None = None
    Session = {s1, s2}
    Runtime = {r1, r2, r3}
    Op = {p1, p2}
    Calls = {"attach", "switch"}
    MaxCached = 2
    Overlap = "sessions"
    SlowTeardown = FALSE
SYMMETRY Alike
INVARIANT FocusKept
CHECK_DEADLOCK FALSE
