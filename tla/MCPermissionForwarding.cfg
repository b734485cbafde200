CONSTANTS
    Children = {c1, c2}
    Drains = {d1, d2}
    MaxMishaps = 1
    Nobody = Nobody
SPECIFICATION FairSpec
INVARIANTS
    OutcomeWasDecided
PROPERTIES
    KeepsContract
    AnsweredWhileServed
    DirectoriesDisappear
CHECK_DEADLOCK FALSE
