CONSTANTS
    c1 = c1
    c2 = c2
    NoOne = NoOne
    Others = Others
    Calls <- TwoCalls
    OpsOf <- WriterAndReader
    Refusals <- FewRefusals
    Ambiguous = {500, 503}
    Bodies = {"json"}
    Attempts = 3
    MaxDelay = 2
    Backoff = 1
    UnknownTypes = {"promotion_pending"}
    Statuses = {429, 503}
    OwnsHttp = FALSE
SPECIFICATION Spec
CHECK_DEADLOCK FALSE
INVARIANTS
    TypeOK
    NoDuplicateWrite
    TotalWaitBounded
PROPERTIES
    NumberedHintHonoured
    NeverBack
