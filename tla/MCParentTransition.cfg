SPECIFICATION Spec
CONSTANTS
    a = a
    trunk = trunk
    left = left
    right = right
    tip = tip
    Entries = {trunk, left, right, tip}
    Above <- MCAbove
    MaxTurns <- MCTurns
    Records = {a}
    MaxCrashes = 2
INVARIANTS RegistryIsWhole ProjectionFollowsLeaf DepartedHoldsNothing
PROPERTIES SharedUndisturbed TransitionsEnd
