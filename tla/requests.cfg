CONSTANTS
    Tried <- AtTheBounds
    Together <- PairsAndPages
    Ceiling = 1
    Budget = 1
    Methods <- EveryMethod
SPECIFICATION Spec
CHECK_DEADLOCK FALSE
INVARIANTS
    TypeOK
    AskedIsDone
    NothingElseIsAsked
    
