CONSTANTS
    Tried <- AtTheBounds
    Together <- PairsAndPages
    Ceiling = 1
    Budget = 1
    Methods <- OnlyRecall
SPECIFICATION Spec
CHECK_DEADLOCK FALSE
INVARIANTS
    LargeRecallIsClamped
