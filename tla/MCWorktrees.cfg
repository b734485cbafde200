SPECIFICATION Spec
CONSTANTS
    w1 = w1
    w2 = w2
    Work <- MCWork
    CanFail <- Commands
    PathsAgree = TRUE
    ChildCommits = TRUE
    MaxCrashes = 2
    MaxTurns = 3
INVARIANT WorkHasAHandle ResumeSeesItsWork PromisesKept
CHECK_DEADLOCK FALSE
