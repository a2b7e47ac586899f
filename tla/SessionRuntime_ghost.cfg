SPECIFICATION Spec
CONSTANTS
    None = None
    Session = {s1, s2}
    Runtime = {r1, r2, r3, r4}
    Op = {p1, p2, p3}
    Calls = {"attach", "switch"}
    MaxCached = 2
    Overlap = "any"
    SlowTeardown = FALSE
SYMMETRY Alike
INVARIANT OneWriter
CHECK_DEADLOCK FALSE
