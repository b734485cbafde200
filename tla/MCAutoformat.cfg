SPECIFICATION Spec
CONSTANTS
    a = a
    b = b
    Files = {a, b}
    Wild <- MCWild
    Own <- MCOwn
    MaxShown = 1
    MaxQueued = 2
INVARIANTS
    WalksItsChain
    ToldOfEveryChange
PROPERTY
    TouchedIsFlushed
