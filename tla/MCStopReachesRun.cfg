CONSTANTS
    Agents = {a1}
    MaxLimit = 1
    MaxResumes = 1
    HasProvider = FALSE
SPECIFICATION Spec
INVARIANT StopReachesRun
