CONSTANTS
    Timeouts <- SomeTimeouts
    Intervals <- SomeIntervals
    PollTime = 2
    MaxTime = 12
SPECIFICATION FairSpec
CHECK_DEADLOCK FALSE
INVARIANTS
    TypeOK
    VerdictIsTrue
    SettledInTimeIsReported
    OverrunBounded
PROPERTIES
    WaitEnds
