SPECIFICATION Spec
CONSTANTS
    Pids = {p1, p2, p3}
    NoPid = NoPid
    Stale = Stale
SYMMETRY Symmetric
INVARIANTS SingleInstance StatusReachesInstance
