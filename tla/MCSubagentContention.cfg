CONSTANTS
    Agents = {a1, a2}
    MaxLimit = 2
    MaxResumes = 0
    HasProvider = FALSE
SPECIFICATION FairSpec
INVARIANTS
    SlotCoversRun
PROPERTIES
    AdmissionIsExact
    QueuedLeaves
