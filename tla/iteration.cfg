CONSTANTS
    Rows <- FourRows
    Claims <- TwoClaims
    ClaimOf <- Alternating
    PageSize = 2
    Strictness = {TRUE, FALSE}
    SortValues = {TRUE, FALSE}
    Obedience = {TRUE, FALSE}
SPECIFICATION FairSpec
CHECK_DEADLOCK FALSE
INVARIANTS
    TypeOK
    CompleteMeansAll
PROPERTIES
    GivenInOrder
    CompleteOrObedientEnds
