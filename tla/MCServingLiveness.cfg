SPECIFICATION ServingSpec
CONSTANTS
    Procs = {p, q}
    Sessions = {t, u}
    Target = t
    Refresh = 2
    Stale = 3
    Grace = 4
    Gap = 1
    Spacing = 4
SYMMETRY Alike
INVARIANTS NobodyIsWaitedFor
PROPERTIES ServedIsWaitedFor
