CONSTANTS
    Builds = {b1, b2, b3}
    NoBuild = NoBuild
SPECIFICATION FairIndexSpec
INVARIANTS
    NoChangeForgotten
    SerialUnlessRaced
PROPERTY ChangesGetIndexed
CHECK_DEADLOCK FALSE
