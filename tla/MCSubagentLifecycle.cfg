CONSTANTS
    Agents = {a1}
    MaxLimit = 1
    MaxResumes = 2
    HasProvider = TRUE
SPECIFICATION FairSpec
INVARIANTS
    ReportedOnce
    SignalStopsItsOwnRun
    RunningSessionIsOpen
PROPERTIES
    StoppedIsSticky
    PreparationEnds
