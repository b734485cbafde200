SPECIFICATION Spec
CONSTANTS
    c1 = c1
    r1 = r1
    Calls = {c1}
    Requests = {r1}
    Targets = {"t"}
    CallShapes <- MCCallShapes
    RequestShapes <- MCRequestShapes
    MaxLinks = 2
    MaxSessions = 2
INVARIANTS
    AllowedIsAuthorised
    NoQuestionForDenied
    OneDialog
    RulesAreTheGrants
PROPERTY
    EveryAskAnswered
