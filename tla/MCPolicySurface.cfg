SPECIFICATION Spec
CONSTANTS
    Tools = {"bash"}
    Values <- MCValues
    Texts <- MCTexts
    Patterns <- MCPatterns
    Permission <- MCPermission
    Rejected = {"bad"}
    Original <- MCOriginal
    Matches <- MCMatches
    Editable = {"project", "agent"}
    MaxEdits = 3
INVARIANTS
    AnswersFromCurrentTexts
    FailsClosed
    SurfaceFollowsPolicy
