CONSTANTS
    Names <- FiveNames
    Hidden <- TwoHidden
    Peers <- TwoPeers
    RecordedBy <- Alternating
    Limit = 2
    Kinds = {"indexes", "namespaces"}
    MaxWrites = 2
SPECIFICATION FairSpec
CHECK_DEADLOCK FALSE
INVARIANTS
    TypeOK
    ListedOnce
    WholeUnlessPartial
PROPERTIES
    ListingEnds
    ReadsAsOneScan
