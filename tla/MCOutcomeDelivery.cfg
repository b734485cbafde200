SPECIFICATION FairSpec
CONSTANTS
    Agents = {a1, a2}
    MaxResumes = 1
    MaxUpdates = 1
    Terse = {a2}
INVARIANTS
    AnnouncedOnce
    ClaimHasCarrier
    UpdateLedger
PROPERTIES
    OutcomeReachesParent
CHECK_DEADLOCK FALSE
