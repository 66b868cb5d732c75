CONSTANTS
    Schemes <- SomeSchemes
    Hosts <- SomeHosts
    Loopback <- OnlyLocal
    Ports <- TwoPorts
    DefaultUrl <- GnarlyApp
    LastPlace = 2
    Settings <- ToldOrLooking
    Oddities <- BadRecords
    MaxEvents = 4
SPECIFICATION Spec
CHECK_DEADLOCK FALSE
INVARIANTS
    TypeOK
    CallerDecides
    ClearStaysLocal
    StandingNodeAnswers
